---- MODULE Spec2Model ----
(***************************************************************************)
(* A model of the window-to-the-world weather widget:                      *)
(*   - the manifest cache of services/weatherService.ts                     *)
(*     (fetchFolderManifest, manifestCache, pendingManifests);              *)
(*   - the retry loop of fetchWeather;                                      *)
(*   - the pure helpers selectImageFromManifest, getTimeOfDayBg,            *)
(*     getTextContrastClass and getWeatherCategory;                         *)
(*   - the App component (city list and its storage, selection, weather    *)
(*     cache, prefetch effect, loadScene and its effect);                   *)
(*   - searchCities;                                                       *)
(*   - the search panel of CitySelect (debounced search effect);           *)
(*   - the grid cells (CityGridItem) inside App.                           *)
(* Each part has its own specification over the shared variables; the      *)
(* variables of the other parts stay at their initial values.              *)
(***************************************************************************)
EXTENDS Integers, Sequences, FiniteSets, TLC

VARIABLES
  \* ---- manifest cache (weatherService.ts:14-41)
  manifestCache,      \* Record<string, FolderManifest>: a function on the keys present
  pendingManifests,   \* Record<string, Promise>: key present -> index into flights
  flights,            \* the promise chains fetch().then().catch().finally() created so far
  calls,              \* the fetchFolderManifest calls made so far and what each resolved to
  netRequests,        \* per category, the number of fetch() calls issued for its index.json
  \* ---- one call of fetchWeather (weatherService.ts:164-202)
  fwPc,               \* where the call is: "fetch", "awaiting", "wait429", "waitErr", "returned", "thrown"
  fwI,                \* the loop variable i
  fwLog,              \* the answers to the requests issued so far, in order
  fwWaits,            \* the waits started so far, in ms, in order
  fwResult,           \* the snapshot returned, or the error thrown
  \* ---- one call of a pure helper of weatherService.ts
  pin,                \* the arguments of the call
  pout,               \* what the call returned (and the values of its local variables)
  \* ---- one call of searchCities (weatherService.ts:204-223)
  scPc,               \* where the call is: "none", "awaiting", "returned", "thrown"
  scQuery,            \* the argument, a sequence of UTF-16 code units
  scRequests,         \* the names the geocoding endpoint was asked for, in order
  scAnswer,           \* how the request was answered
  scResult,           \* what the call returned
  \* ---- the App component (part_000)
  cities,             \* useState: the ordered city list
  selectedCity,       \* useState: the selected city, or NoCity for null
  weather,            \* useState: the snapshot shown in the detail view, or NoWeather for null
  isGridView,         \* useState
  weatherCache,       \* useState: Record<id, WeatherData>, a function on the ids present
  cacheRef,           \* useRef: Record<id, WeatherData>
  viewState,          \* useState: [status, description]
  tasks,              \* the calls of fetchWeather that have not settled, with their callers
  nfetch,             \* the number of fetchWeather calls made so far
  storage,            \* localStorage: the values under 'app_cities' and 'user_cities'
  appPc,              \* "running", or "crashed" when the first render threw
  \* ---- the search panel of CitySelect (part_002)
  isSearchOpen,       \* useState
  query,              \* useState: the text of the input, a sequence of code units
  results,            \* useState: the cities listed
  isSearching,        \* useState
  timer,              \* the setTimeout of the search effect that has not fired, or NoTimer
  searches,           \* the calls of searchCities that have not returned
  nsearch,            \* the number of searchCities calls made so far
  \* ---- the grid cells (components/CityGridItem.tsx)
  cells,              \* per mounted cell (React key city.id): its useState weather and isLoading
  cellTasks           \* the loadData calls that have not ended, with their isMounted flag

manifestVars == <<manifestCache, pendingManifests, flights, calls, netRequests>>
fetchVars == <<fwPc, fwI, fwLog, fwWaits, fwResult>>

pureVars == <<pin, pout>>
appVars == <<cities, selectedCity, weather, isGridView, weatherCache, cacheRef,
             viewState, tasks, nfetch, storage, appPc>>

searchVars == <<scPc, scQuery, scRequests, scAnswer, scResult>>

selectVars == <<isSearchOpen, query, results, isSearching, timer, searches, nsearch>>

cellVars == <<cells, cellTasks>>

vars == <<manifestVars, fetchVars, pureVars, appVars, searchVars, selectVars, cellVars>>

\* What the actions of one part leave alone.
notManifestVars == <<fetchVars, pureVars, appVars, searchVars, selectVars, cellVars>>
notFetchVars == <<manifestVars, pureVars, appVars, searchVars, selectVars, cellVars>>
notPureVars == <<manifestVars, fetchVars, appVars, searchVars, selectVars, cellVars>>
notAppVars == <<manifestVars, fetchVars, pureVars, searchVars, selectVars, cellVars>>
notSearchVars == <<manifestVars, fetchVars, pureVars, appVars, selectVars, cellVars>>

notSelectVars == <<manifestVars, fetchVars, pureVars, appVars, searchVars, cellVars>>

\* The empty JS object {} : a Record with no key.
EmptyRecord == [x \in {} |-> {}]

\* delete rec[key]
Delete(rec, key) == [x \in DOMAIN rec \ {key} |-> rec[x]]

\* rec[key] = value
Put(rec, key, value) == [x \in DOMAIN rec \cup {key} |-> IF x = key THEN value ELSE rec[x]]

(***************************************************************************)
(* Manifest cache                                                          *)
(***************************************************************************)

\* Bounds of the manifest model.
MaxCalls == 3
MaxManifestLen == 1

\* Two of the six category keys and two file names are enough to tell
\* categories and manifests apart.
Categories == {"snow-night", "clear-day"}
Files == {"a.png", "b.png"}

SeqsUpTo(S, n) == UNION {[1..m -> S] : m \in 0..n}

\* type FolderManifest = string[]
FolderManifest == SeqsUpTo(Files, MaxManifestLen)

\* What the network can answer to GET <base>/<category>/index.json: a success
\* status with a JSON array of file names, a success status with a body that
\* does not parse, a non-success status, or no answer at all (fetch rejects).
Responses ==
  [kind : {"ok"}, body : FolderManifest]
    \cup [kind : {"badjson", "notok", "neterr"}, body : {<<>>}]

InitManifest ==
  /\ manifestCache = EmptyRecord
  /\ pendingManifests = EmptyRecord
  /\ flights = <<>>
  /\ calls = <<>>
  /\ netRequests = [c \in Categories |-> 0]

\* No manifest was ever asked for.
NoManifest == InitManifest

\* The variables of fetchWeather when no call is modelled.
NoFetch ==
  /\ fwPc = "none"
  /\ fwI = 0
  /\ fwLog = <<>>
  /\ fwWaits = <<>>
  /\ fwResult = [kind |-> "none"]

\* No helper is called.
NoPure ==
  /\ pin = [fn |-> "none"]
  /\ pout = [fn |-> "none"]

\* null for a city and for a snapshot
NoCity == [id |-> "null", name |-> "null", country |-> "null"]
NoWeather == [city |-> "null", n |-> 0]

\* The App component is not mounted.
\* localStorage.getItem(key) === null
Absent == [kind |-> "absent"]

\* No cell is mounted.
NoCells == cells = EmptyRecord /\ cellTasks = {}

NoTimer == [kind |-> "none"]

\* The search panel as CitySelect creates it (part_002 lines 52-56).
NoSelect ==
  /\ isSearchOpen = FALSE
  /\ query = <<>>
  /\ results = <<>>
  /\ isSearching = FALSE
  /\ timer = NoTimer
  /\ searches = {}
  /\ nsearch = 0

NoSearch ==
  /\ scPc = "none"
  /\ scQuery = <<>>
  /\ scRequests = <<>>
  /\ scAnswer = [kind |-> "none"]
  /\ scResult = <<>>

\* A description names the city and the snapshot whose conditions it quotes
\* (lines 75 and 88); description: null is NoDescription.
NoDescription == [name |-> "null", n |-> 0]
Describe(city, snapshot) == [name |-> city.name, n |-> snapshot.n]

NoApp ==
  /\ cities = <<>>
  /\ selectedCity = NoCity
  /\ weather = NoWeather
  /\ isGridView = FALSE
  /\ weatherCache = EmptyRecord
  /\ cacheRef = EmptyRecord
  /\ viewState = [status |-> "idle", description |-> NoDescription]
  /\ tasks = {}
  /\ nfetch = 0
  /\ storage = [app_cities |-> Absent, user_cities |-> Absent]
  /\ appPc = "running"

\* The call returns a value it already has (line 21): the promise of the async
\* function is fulfilled with it.
ReturnCached(c) ==
  /\ calls' = Append(calls, [cat |-> c, flight |-> 0, st |-> "resolved",
                             val |-> manifestCache[c]])
  /\ UNCHANGED <<manifestCache, pendingManifests, flights, netRequests>>

\* The call returns the promise stored for the category (line 22).
ReturnPending(c) ==
  /\ calls' = Append(calls, [cat |-> c, flight |-> pendingManifests[c],
                             st |-> "awaiting", val |-> <<>>])
  /\ UNCHANGED <<manifestCache, pendingManifests, flights, netRequests>>

\* The call issues the request and stores the promise of the whole chain
\* (lines 24-40).
StartRequest(c) ==
  /\ flights' = Append(flights, [cat |-> c, stage |-> "fetch", state |-> "pending",
                                 val |-> <<>>,
                                 resp |-> [kind |-> "none", body |-> <<>>]])
  /\ pendingManifests' = Put(pendingManifests, c, Len(flights) + 1)
  /\ netRequests' = [netRequests EXCEPT ![c] = @ + 1]
  /\ calls' = Append(calls, [cat |-> c, flight |-> Len(flights) + 1,
                             st |-> "awaiting", val |-> <<>>])
  /\ UNCHANGED manifestCache

\* An array, also the empty one, is truthy in JS; a missing key reads as
\* undefined, which is falsy.
HasManifest(c) == c \in DOMAIN manifestCache

\* Variant: the check of pendingManifests (line 22) is left out.
HasPendingNever(c) == FALSE

HasPending(c) == c \in DOMAIN pendingManifests

\* fetchFolderManifest(category), up to the point where it returns a promise.
FetchFolderManifest(c) ==
  /\ Len(calls) < MaxCalls
  /\ IF HasManifest(c) THEN ReturnCached(c)
     ELSE IF HasPending(c) THEN ReturnPending(c)
     ELSE StartRequest(c)

SetFlight(f, stage, state, val) ==
  flights' = [flights EXCEPT ![f].stage = stage, ![f].state = state, ![f].val = val]

\* The network answers the request of flight f. A network error rejects the
\* fetch promise, .then passes the rejection on and the .catch handler is next;
\* any answer queues the .then handler (line 25).
Respond(f, r) ==
  /\ flights[f].stage = "fetch"
  /\ flights' = [flights EXCEPT ![f].resp = r,
                                ![f].stage = IF r.kind = "neterr" THEN "catch" ELSE "then"]
  /\ UNCHANGED <<manifestCache, pendingManifests, calls, netRequests>>

\* The .then handler up to its await (lines 26-27): a non-success status throws,
\* otherwise the handler waits for res.json().
ThenHandler(f) ==
  /\ flights[f].stage = "then"
  /\ flights' = [flights EXCEPT ![f].stage =
                   IF flights[f].resp.kind = "ok" \/ flights[f].resp.kind = "badjson"
                   THEN "json" ELSE "catch"]
  /\ UNCHANGED <<manifestCache, pendingManifests, calls, netRequests>>

\* Variant: the data is returned but not stored in manifestCache (line 28 left out).
ThenStoreNoMemo(f) ==
  /\ flights[f].stage = "json"
  /\ IF flights[f].resp.kind = "badjson"
     THEN SetFlight(f, "catch", "pending", <<>>)
     ELSE SetFlight(f, "finally", "fulfilled", flights[f].resp.body)
  /\ UNCHANGED <<manifestCache, pendingManifests, calls, netRequests>>

\* The .then handler after its await (lines 27-29): res.json() rejects on a body
\* that does not parse, otherwise the data is stored and returned.
ThenStore(f) ==
  /\ flights[f].stage = "json"
  /\ IF flights[f].resp.kind = "badjson"
     THEN /\ SetFlight(f, "catch", "pending", <<>>)
          /\ UNCHANGED manifestCache
     ELSE /\ manifestCache' = Put(manifestCache, flights[f].cat, flights[f].resp.body)
          /\ SetFlight(f, "finally", "fulfilled", flights[f].resp.body)
  /\ UNCHANGED <<pendingManifests, calls, netRequests>>

\* Variant: the failure resolves to the empty manifest without storing it
\* (line 33 left out).
CatchHandlerNoMemo(f) ==
  /\ flights[f].stage = "catch"
  /\ SetFlight(f, "finally", "fulfilled", <<>>)
  /\ UNCHANGED <<manifestCache, pendingManifests, calls, netRequests>>

\* The .catch handler (lines 31-35): the empty manifest is stored and returned.
CatchHandler(f) ==
  /\ flights[f].stage = "catch"
  /\ manifestCache' = Put(manifestCache, flights[f].cat, <<>>)
  /\ SetFlight(f, "finally", "fulfilled", <<>>)
  /\ UNCHANGED <<pendingManifests, calls, netRequests>>

\* The .finally handler (lines 36-38): the key is deleted, and the promise that
\* was stored in pendingManifests settles the way the chain before it did.
FinallyHandler(f) ==
  /\ flights[f].stage = "finally"
  /\ pendingManifests' = Delete(pendingManifests, flights[f].cat)
  /\ flights' = [flights EXCEPT ![f].stage = "settled"]
  /\ UNCHANGED <<manifestCache, calls, netRequests>>

\* A caller that was handed the promise of flight f sees it settle.
Settle(k) ==
  /\ calls[k].st = "awaiting"
  /\ flights[calls[k].flight].stage = "settled"
  /\ calls' = [calls EXCEPT ![k].st = IF flights[calls[k].flight].state = "fulfilled"
                                      THEN "resolved" ELSE "rejected",
                            ![k].val = flights[calls[k].flight].val]
  /\ UNCHANGED <<manifestCache, pendingManifests, flights, netRequests>>

NextManifest ==
  \/ \E c \in Categories : FetchFolderManifest(c) /\ UNCHANGED notManifestVars
  \/ \E f \in 1..Len(flights) : \E r \in Responses : Respond(f, r) /\ UNCHANGED notManifestVars
  \/ \E f \in 1..Len(flights) : ThenHandler(f) /\ UNCHANGED notManifestVars
  \/ \E f \in 1..Len(flights) : ThenStore(f) /\ UNCHANGED notManifestVars
  \/ \E f \in 1..Len(flights) : CatchHandler(f) /\ UNCHANGED notManifestVars
  \/ \E f \in 1..Len(flights) : FinallyHandler(f) /\ UNCHANGED notManifestVars
  \/ \E k \in 1..Len(calls) : Settle(k) /\ UNCHANGED notManifestVars

InitSpecManifest == InitManifest /\ NoFetch /\ NoPure /\ NoApp /\ NoSearch /\ NoSelect /\ NoCells

SpecManifest == InitSpecManifest /\ [][NextManifest]_vars

CallIds == 1..Len(calls)
FlightIds == 1..Len(flights)
FlightsOf(c) == {f \in FlightIds : flights[f].cat = c}

\* The calls that were handed a promise of a request: the call that issued it
\* and the calls that arrived while it was outstanding.
Overlapping(c) == {k \in CallIds : calls[k].cat = c /\ calls[k].flight # 0}

\* The chain of flight f has run its .then/.catch handlers.
Completed(f) == flights[f].stage \in {"finally", "settled"}
Succeeded(f) == Completed(f) /\ flights[f].resp.kind = "ok"
Failed(f) == Completed(f) /\ flights[f].resp.kind \in {"notok", "neterr", "badjson"}

\* C2: manifest single-flight. The calls for one category that overlap an
\* outstanding request share one promise, exactly one network request was
\* issued for the category, and the callers that have resolved hold the same
\* file name sequence.
ManifestSingleFlight ==
  \A c \in Categories :
    Overlapping(c) # {} =>
      /\ netRequests[c] = 1
      /\ Cardinality(FlightsOf(c)) = 1
      /\ \A k1, k2 \in Overlapping(c) :
           /\ calls[k1].flight = calls[k2].flight
           /\ calls[k1].st # "awaiting" /\ calls[k2].st # "awaiting"
                => calls[k1].st = calls[k2].st /\ calls[k1].val = calls[k2].val

\* Three overlapping calls for one category have all resolved to a non-empty manifest.
ManifestSingleFlightWitness ==
  \E c \in Categories :
    /\ Cardinality(Overlapping(c)) >= 3
    /\ \A k \in Overlapping(c) : calls[k].st = "resolved" /\ calls[k].val # <<>>

\* C3: a successful manifest is memoized for good. From the moment the first
\* request of a category is started the category is pending or cached; once a
\* request has completed successfully the cache holds its file names, every
\* call that has returned for the category returned them, and no second
\* request was issued.
ManifestMemoized ==
  /\ \A c \in Categories : netRequests[c] > 0 => HasPending(c) \/ HasManifest(c)
  /\ \A f \in FlightIds :
       Succeeded(f) =>
         /\ HasManifest(flights[f].cat)
         /\ manifestCache[flights[f].cat] = flights[f].resp.body
         /\ netRequests[flights[f].cat] = 1
         /\ \A k \in CallIds :
              calls[k].cat = flights[f].cat /\ calls[k].st # "awaiting"
                => calls[k].st = "resolved" /\ calls[k].val = flights[f].resp.body

\* A call made after the request completed was served the non-empty manifest
\* from the cache, after a call for the other category.
ManifestMemoizedWitness ==
  \E f \in FlightIds : \E k, j \in CallIds :
    /\ Succeeded(f) /\ flights[f].stage = "settled"
    /\ calls[k].cat = flights[f].cat /\ calls[k].flight = 0
    /\ calls[k].val # <<>>
    /\ j < k /\ calls[j].cat # calls[k].cat

\* C4: a failed manifest request resolves to the empty sequence, which is
\* memoized: the cache holds the empty sequence, every call that has returned
\* for the category returned it, no second request was issued, and no call of
\* fetchFolderManifest is ever rejected.
ManifestFailureMemoized ==
  /\ \A k \in CallIds : calls[k].st # "rejected"
  /\ \A f \in FlightIds :
       Failed(f) =>
         /\ flights[f].state = "fulfilled" /\ flights[f].val = <<>>
         /\ HasManifest(flights[f].cat)
         /\ manifestCache[flights[f].cat] = <<>>
         /\ netRequests[flights[f].cat] = 1
         /\ \A k \in CallIds :
              calls[k].cat = flights[f].cat /\ calls[k].st # "awaiting"
                => calls[k].val = <<>>

\* After a failed request, the call that issued it has resolved and a later
\* call was served the memoized empty manifest.
ManifestFailureMemoizedWitness ==
  \E f \in FlightIds : \E k, j \in CallIds :
    /\ Failed(f)
    /\ calls[j].flight = f /\ calls[j].st = "resolved"
    /\ calls[k].cat = flights[f].cat /\ calls[k].flight = 0 /\ calls[k].val = <<>>

(***************************************************************************)
(* fetchWeather                                                            *)
(***************************************************************************)

\* retries = 3 (the default of the parameter; no caller passes another value)
retries == 3

\* The weather codes and day flags the provider answers with in the model.
WeatherCodes == {0, 71}
DayFlags == {0, 1}

\* What the network can answer to one request: a success status with a body
\* holding current.weather_code and current.is_day, a success status with a body
\* that does not parse, HTTP 429, another non-success status, or no answer.
WeatherAnswers ==
  [kind : {"ok"}, weather_code : WeatherCodes, is_day : DayFlags]
    \cup [kind : {"badbody", "http429", "httperr", "neterr"}]

\* Math.pow(2, i)
RECURSIVE Pow2(_)
Pow2(n) == IF n = 0 THEN 1 ELSE 2 * Pow2(n - 1)

InitFetch ==
  /\ fwPc = "fetch"
  /\ fwI = 0
  /\ fwLog = <<>>
  /\ fwWaits = <<>>
  /\ fwResult = [kind |-> "none"]

\* Variant: the loop runs while i <= retries.
LoopContinuesOffByOne(i) == i <= retries

\* The loop condition i < retries (line 168).
LoopContinues(i) == i < retries

\* The loop issues the request of attempt i (lines 168-170).
FwRequest ==
  /\ fwPc = "fetch"
  /\ fwPc' = "awaiting"
  /\ UNCHANGED <<fwI, fwLog, fwWaits, fwResult>>

\* The snapshot built from a parsed body (lines 179-195).
Snapshot(a) == [kind |-> "snapshot", conditionCode |-> a.weather_code, isDay |-> (a.is_day = 1)]

\* The request of attempt i is answered with a (lines 170-199).
FwAnswer(a) ==
  /\ fwPc = "awaiting"
  /\ fwLog' = Append(fwLog, a.kind)
  /\ IF a.kind = "ok"
     THEN /\ fwPc' = "returned"
          /\ fwResult' = Snapshot(a)
          /\ UNCHANGED <<fwI, fwWaits>>
     ELSE IF a.kind = "http429"
     THEN /\ fwPc' = "wait429"
          /\ fwWaits' = Append(fwWaits, 1500 * (fwI + 1))
          /\ UNCHANGED <<fwI, fwResult>>
     ELSE IF fwI = retries - 1
     THEN /\ fwPc' = "thrown"
          /\ fwResult' = [kind |-> "error", error |-> a.kind]
          /\ UNCHANGED <<fwI, fwWaits>>
     ELSE /\ fwPc' = "waitErr"
          /\ fwWaits' = Append(fwWaits, 500 * Pow2(fwI))
          /\ UNCHANGED <<fwI, fwResult>>

\* The wait is over: `continue` (line 174) or the end of the catch block
\* (line 199) goes to i++ and the loop condition; leaving the loop throws
\* 'Weather fetch failed' (line 201).
FwWaitOver ==
  /\ fwPc \in {"wait429", "waitErr"}
  /\ fwI' = fwI + 1
  /\ IF LoopContinues(fwI + 1)
     THEN fwPc' = "fetch" /\ UNCHANGED fwResult
     ELSE fwPc' = "thrown" /\ fwResult' = [kind |-> "error", error |-> "Weather fetch failed"]
  /\ UNCHANGED <<fwLog, fwWaits>>

NextFetch ==
  \/ FwRequest /\ UNCHANGED notFetchVars
  \/ \E a \in WeatherAnswers : FwAnswer(a) /\ UNCHANGED notFetchVars
  \/ FwWaitOver /\ UNCHANGED notFetchVars

InitSpecFetch == InitFetch /\ NoManifest /\ NoPure /\ NoApp /\ NoSearch /\ NoSelect /\ NoCells

\* Every request is answered or fails and every timer fires.
SpecFetch == InitSpecFetch /\ [][NextFetch]_vars /\ WF_vars(NextFetch)

FwRequests == Len(fwLog) + (IF fwPc = "awaiting" THEN 1 ELSE 0)
FwFailures == {n \in 1..Len(fwLog) : fwLog[n] # "ok"}
FwDone == fwPc \in {"returned", "thrown"}

FetchWeatherSafe ==
  /\ FwRequests <= 3
  \* a success ends the call at once: it is the last answer and the call returned
  /\ \A n \in 1..Len(fwLog) : fwLog[n] = "ok" => n = Len(fwLog) /\ fwPc = "returned"
  /\ fwPc = "returned" <=> (fwLog # <<>> /\ fwLog[Len(fwLog)] = "ok")
  /\ fwPc = "returned" => fwResult.kind = "snapshot"
  \* the call fails only after 3 failed attempts, and after 3 failed attempts
  \* nothing is left but to fail
  /\ fwPc = "thrown" => Cardinality(FwFailures) = 3 /\ fwResult.kind = "error"
  /\ Cardinality(FwFailures) = 3 => fwPc \in {"thrown", "wait429"}

\* C5: one fetchWeather call issues at most 3 requests and terminates; it
\* returns a snapshot as soon as a request succeeds and fails exactly when all
\* 3 attempts failed, whatever the mix of 429s, other statuses and network errors.
FetchWeatherBounded == []FetchWeatherSafe /\ <>FwDone /\ [](Cardinality(FwFailures) = 3 => <>(fwPc = "thrown"))

\* The call failed after a 429, another status and a network error.
FetchWeatherBoundedWitness ==
  /\ fwPc = "thrown"
  /\ {fwLog[n] : n \in 1..Len(fwLog)} = {"http429", "httperr", "neterr"}

(***************************************************************************)
(* getWeatherCategory                                                      *)
(***************************************************************************)

\* The condition codes 0..MaxCode are tried (the WMO codes in use are 0..99).
MaxCode == 99

\* Variant: code 77 (snow grains) is missing from the snow list.
SnowCodesWithout77 == {71, 73, 75, 85, 86}

\* line 51
SnowCodes == {71, 73, 75, 77, 85, 86}

\* line 53
RainCodes == {51, 53, 55, 56, 57, 61, 63, 65, 66, 67, 80, 81, 82, 95, 96, 99}

\* getWeatherCategory(weather); w.absent stands for null.
getWeatherCategory(w) ==
  IF w.absent THEN [isNull |-> TRUE, str |-> ""]
  ELSE LET code == w.conditionCode
           condition == IF code \in SnowCodes THEN "snow"
                        ELSE IF code \in RainCodes THEN "rain"
                        ELSE "clear"
       IN [isNull |-> FALSE,
           str |-> condition \o "-" \o (IF w.isDay THEN "day" ELSE "night")]

WeatherInputs ==
  [absent : {TRUE}, conditionCode : {0}, isDay : {FALSE}]
    \cup [absent : {FALSE}, conditionCode : 0..MaxCode, isDay : BOOLEAN]

InitCategory ==
  /\ pin \in [fn : {"getWeatherCategory"}, weather : WeatherInputs]
  /\ pout = [fn |-> "none"]

CallGetWeatherCategory ==
  /\ pin.fn = "getWeatherCategory"
  /\ pout.fn = "none"
  /\ pout' = [fn |-> "getWeatherCategory", ret |-> getWeatherCategory(pin.weather)]
  /\ UNCHANGED pin

NextCategory ==
  \/ CallGetWeatherCategory /\ UNCHANGED notPureVars

InitSpecCategory == InitCategory /\ NoManifest /\ NoFetch /\ NoApp /\ NoSearch /\ NoSelect /\ NoCells

SpecCategory == InitSpecCategory /\ [][NextCategory]_vars

\* C10: getWeatherCategory returns null for no snapshot and otherwise one of the
\* six keys: snow for 71,73,75,77,85,86, rain for 51,53,55,56,57,61,63,65,66,67,
\* 80,81,82,95,96,99, clear for every other code, with -day when the day flag is
\* set and -night otherwise.
WeatherCategoryKeys ==
  pout.fn = "getWeatherCategory" =>
    LET w == pin.weather
        r == pout.ret
        class == IF w.conditionCode \in {71, 73, 75, 77, 85, 86} THEN "snow"
                 ELSE IF w.conditionCode \in {51, 53, 55, 56, 57, 61, 63, 65, 66, 67,
                                              80, 81, 82, 95, 96, 99} THEN "rain"
                 ELSE "clear"
    IN IF w.absent THEN r.isNull
       ELSE /\ ~r.isNull
            /\ r.str \in {"clear-day", "clear-night", "rain-day", "rain-night",
                          "snow-day", "snow-night"}
            /\ w.isDay => r.str = class \o "-day"
            /\ ~w.isDay => r.str = class \o "-night"

\* Code 71 at night was classified, and gave snow-night.
WeatherCategoryKeysWitness ==
  /\ pout.fn = "getWeatherCategory"
  /\ ~pin.weather.absent /\ pin.weather.conditionCode = 71 /\ ~pin.weather.isDay
  /\ pout.ret.str = "snow-night"

(***************************************************************************)
(* getTimeOfDayBg and getTextContrastClass                                 *)
(* A string is a sequence of characters; "nnbsp" stands for U+202F, the    *)
(* narrow no-break space Intl.DateTimeFormat may put before AM/PM.         *)
(***************************************************************************)

\* The hours 0..MaxHour are written into the time strings that are tried.
MaxHour == 24

DigitChars == <<"0", "1", "2", "3", "4", "5", "6", "7", "8", "9">>

\* \d
IsDigit(ch) == \E d \in 1..10 : DigitChars[d] = ch

DigitValue(ch) == (CHOOSE d \in 1..10 : DigitChars[d] = ch) - 1

\* \s
IsSpace(ch) == ch \in {" ", "nnbsp", "tab"}

\* toUpperCase, and the case folding of the regex flag i
ToUpper(ch) ==
  IF ch = "a" THEN "A" ELSE IF ch = "p" THEN "P" ELSE IF ch = "m" THEN "M" ELSE ch

\* The last index of the longest run of digits that starts at index i (i - 1
\* when the run is empty): what a greedy \d+ takes.
RECURSIVE DigitRunEnd(_, _)
DigitRunEnd(s, i) ==
  IF i <= Len(s) /\ IsDigit(s[i]) THEN DigitRunEnd(s, i + 1) ELSE i - 1

\* The same for white space: what a greedy \s* takes.
RECURSIVE SpaceRunEnd(_, _)
SpaceRunEnd(s, i) ==
  IF i <= Len(s) /\ IsSpace(s[i]) THEN SpaceRunEnd(s, i + 1) ELSE i - 1

\* Whether /(\d+):(\d+)\s*(AM|PM)/i matches s starting at index i. The runs are
\* followed by a character outside their class, so only the longest run can match.
MatchesAt(s, i) ==
  LET e1 == DigitRunEnd(s, i)
      e2 == DigitRunEnd(s, e1 + 2)
      e3 == SpaceRunEnd(s, e2 + 1)
  IN /\ e1 >= i
     /\ e1 + 1 <= Len(s) /\ s[e1 + 1] = ":"
     /\ e2 >= e1 + 2
     /\ e3 + 2 <= Len(s)
     /\ ToUpper(s[e3 + 1]) \in {"A", "P"}
     /\ ToUpper(s[e3 + 2]) = "M"

\* timeStr.match(/(\d+):(\d+)\s*(AM|PM)/i): null, or the groups 1 and 3 of the
\* leftmost match (lines 88 and 111).
TimeMatch(s) ==
  IF \E i \in 1..Len(s) : MatchesAt(s, i)
  THEN LET i == CHOOSE j \in 1..Len(s) :
                  MatchesAt(s, j) /\ \A k \in 1..(j - 1) : ~MatchesAt(s, k)
           e1 == DigitRunEnd(s, i)
           e3 == SpaceRunEnd(s, DigitRunEnd(s, e1 + 2) + 1)
       IN [found |-> TRUE, g1 |-> SubSeq(s, i, e1), g3 |-> SubSeq(s, e3 + 1, e3 + 2)]
  ELSE [found |-> FALSE, g1 |-> <<>>, g3 |-> <<>>]

\* parseInt(digits, 10) of a non-empty run of digits
RECURSIVE ParseInt(_)
ParseInt(ds) ==
  IF Len(ds) = 0 THEN 0
  ELSE 10 * ParseInt(SubSeq(ds, 1, Len(ds) - 1)) + DigitValue(ds[Len(ds)])

\* !timeStr : null and the empty string are falsy
Falsy(timeStr) == timeStr.absent \/ timeStr.chars = <<>>

\* Variant: 12 AM is not turned into hour 0 (line 94 left out).
ContrastHourNoMidnight(timeStr) ==
  LET match == TimeMatch(timeStr.chars)
      hour == ParseInt(match.g1)
      ampm == <<ToUpper(match.g3[1]), ToUpper(match.g3[2])>>
  IN IF ~match.found THEN 12
     ELSE IF ampm = <<"P", "M">> /\ hour < 12 THEN hour + 12
     ELSE hour

\* The variable hour of getTextContrastClass (lines 88-95).
ContrastHour(timeStr) ==
  LET match == TimeMatch(timeStr.chars)
      hour == ParseInt(match.g1)
      ampm == <<ToUpper(match.g3[1]), ToUpper(match.g3[2])>>
  IN IF ~match.found THEN 12
     ELSE IF ampm = <<"P", "M">> /\ hour < 12 THEN hour + 12
     ELSE IF ampm = <<"A", "M">> /\ hour = 12 THEN 0
     ELSE hour

\* line 86
ContrastOfAbsent == [main |-> "text-zinc-950", sub |-> "text-zinc-500"]

\* getTextContrastClass(timeStr) (lines 85-103), with the value of hour.
getTextContrastClass(timeStr) ==
  IF Falsy(timeStr) THEN [hour |-> -1, ret |-> ContrastOfAbsent]
  ELSE LET hour == ContrastHour(timeStr)
       IN IF hour >= 6 /\ hour < 18
          THEN [hour |-> hour, ret |-> [main |-> "text-zinc-900", sub |-> "text-zinc-500"]]
          ELSE [hour |-> hour, ret |-> [main |-> "text-white", sub |-> "text-white/70"]]

\* Variant: a string that does not match is taken as midnight.
BgHourDefaultsToMidnight(timeStr) ==
  LET match == TimeMatch(timeStr.chars)
      hour == ParseInt(match.g1)
      ampm == <<ToUpper(match.g3[1]), ToUpper(match.g3[2])>>
  IN IF ~match.found THEN 0
     ELSE IF ampm = <<"P", "M">> /\ hour < 12 THEN hour + 12
     ELSE IF ampm = <<"A", "M">> /\ hour = 12 THEN 0
     ELSE hour

\* The variable hour of getTimeOfDayBg (lines 111-118).
BgHour(timeStr) ==
  LET match == TimeMatch(timeStr.chars)
      hour == ParseInt(match.g1)
      ampm == <<ToUpper(match.g3[1]), ToUpper(match.g3[2])>>
  IN IF ~match.found THEN 12
     ELSE IF ampm = <<"P", "M">> /\ hour < 12 THEN hour + 12
     ELSE IF ampm = <<"A", "M">> /\ hour = 12 THEN 0
     ELSE hour

\* Variant: Evening starts at 17.
BucketOfEarlyEvening(hour) ==
  IF hour >= 23 \/ hour < 3 THEN [bucket |-> "Deep Night", color |-> "#273657"]
  ELSE IF hour >= 3 /\ hour < 6 THEN [bucket |-> "Late Night", color |-> "#4E72A0"]
  ELSE IF hour >= 6 /\ hour < 12 THEN [bucket |-> "Morning", color |-> "#F7F9FF"]
  ELSE IF hour >= 12 /\ hour < 17 THEN [bucket |-> "Afternoon", color |-> "#F2F4FF"]
  ELSE [bucket |-> "Evening", color |-> "#96A8C2"]

\* The variables bucket and color of getTimeOfDayBg (lines 120-138).
BucketOf(hour) ==
  IF hour >= 23 \/ hour < 3 THEN [bucket |-> "Deep Night", color |-> "#273657"]
  ELSE IF hour >= 3 /\ hour < 6 THEN [bucket |-> "Late Night", color |-> "#4E72A0"]
  ELSE IF hour >= 6 /\ hour < 12 THEN [bucket |-> "Morning", color |-> "#F7F9FF"]
  ELSE IF hour >= 12 /\ hour < 18 THEN [bucket |-> "Afternoon", color |-> "#F2F4FF"]
  ELSE [bucket |-> "Evening", color |-> "#96A8C2"]

\* getTimeOfDayBg(timeStr) (lines 108-141), with the values of hour and bucket;
\* the function returns color.
getTimeOfDayBg(timeStr) ==
  IF Falsy(timeStr) THEN [hour |-> -1, bucket |-> "", ret |-> "#F7F9FF"]
  ELSE LET hour == BgHour(timeStr)
       IN [hour |-> hour, bucket |-> BucketOf(hour).bucket, ret |-> BucketOf(hour).color]

\* ---- the time strings that are tried

\* The decimal digits of an hour, zero-padded ('2-digit') or not.
HourChars(h, pad) ==
  IF h < 10 THEN (IF pad THEN <<"0", DigitChars[h + 1]>> ELSE <<DigitChars[h + 1]>>)
  ELSE <<DigitChars[(h \div 10) + 1], DigitChars[(h % 10) + 1]>>

MinuteChars == {<<"0", "0">>, <<"5", "9">>}
Separators == {<<>>, <<" ">>, <<"nnbsp">>}
AmPms ==
  {[pm |-> FALSE, chars |-> <<"A", "M">>], [pm |-> FALSE, chars |-> <<"a", "m">>],
   [pm |-> TRUE, chars |-> <<"P", "M">>], [pm |-> TRUE, chars |-> <<"p", "m">>],
   [pm |-> TRUE, chars |-> <<"P", "m">>]}

\* 'h:mm AM|PM' as formatted by Intl.DateTimeFormat (lines 182-187), together
\* with the hour and the half of the day it was written from.
ClockInputs ==
  {[fn |-> "time", form |-> "clock", parses |-> TRUE, h |-> h, pm |-> ap.pm,
    timeStr |-> [absent |-> FALSE,
                 chars |-> HourChars(h, pad) \o <<":">> \o mm \o sep \o ap.chars]] :
     h \in 0..MaxHour, pad \in BOOLEAN, mm \in MinuteChars, sep \in Separators, ap \in AmPms}

\* Other strings, each with whether it holds a 12-hour time somewhere.
OtherStrings ==
  {[parses |-> FALSE, chars |-> <<>>],
   [parses |-> FALSE, chars |-> <<"-", "-", ":", "-", "-">>],
   [parses |-> FALSE, chars |-> <<"1", "2", ":", "3", "0">>],
   [parses |-> FALSE, chars |-> <<"2", "3", ":", "1", "5">>],
   [parses |-> FALSE, chars |-> <<"n", "o", "o", "n">>],
   [parses |-> FALSE, chars |-> <<":", "3", "0", " ", "P", "M">>],
   [parses |-> FALSE, chars |-> <<"1", "2", ":", " ", "P", "M">>],
   [parses |-> FALSE, chars |-> <<"1", "2", ".", "3", "0", " ", "P", "M">>],
   [parses |-> FALSE, chars |-> <<"1", "2", ":", "3", "0", " ", "X", "M">>],
   [parses |-> FALSE, chars |-> <<"1", "2", ":", "3", "0", " ", "P">>],
   [parses |-> FALSE, chars |-> <<"1", "2", ":", "3", "0", "-", "P", "M">>],
   [parses |-> FALSE, chars |-> <<"7", " ", "P", "M">>],
   [parses |-> FALSE, chars |-> <<"P", "M">>],
   [parses |-> FALSE, chars |-> <<" ">>],
   [parses |-> TRUE, chars |-> <<"a", "t", " ", "9", ":", "0", "5", " ", "P", "M">>],
   [parses |-> TRUE, chars |-> <<"9", ":", "0", "5", " ", "P", "M", ".">>],
   [parses |-> TRUE, chars |-> <<"1", " ", "2", ":", "3", "0", " ", "A", "M">>],
   [parses |-> TRUE, chars |-> <<"0", "9", ":", "0", "5", ":", "3", "3", " ", "P", "M">>],
   [parses |-> TRUE, chars |-> <<"1", "1", ":", "5", "9", " ", "tab", "a", "M">>]}

OtherInputs ==
  {[fn |-> "time", form |-> "other", parses |-> o.parses, h |-> 0, pm |-> FALSE,
    timeStr |-> [absent |-> FALSE, chars |-> o.chars]] : o \in OtherStrings}

AbsentInput ==
  [fn |-> "time", form |-> "absent", parses |-> FALSE, h |-> 0, pm |-> FALSE,
   timeStr |-> [absent |-> TRUE, chars |-> <<>>]]

TimeInputs == ClockInputs \cup OtherInputs \cup {AbsentInput}

InitTime ==
  /\ pin \in TimeInputs
  /\ pout = [fn |-> "time", bgDone |-> FALSE, bg |-> [hour |-> -1, bucket |-> "", ret |-> ""],
             contrastDone |-> FALSE,
             contrast |-> [hour |-> -1, ret |-> [main |-> "", sub |-> ""]]]

CallGetTimeOfDayBg ==
  /\ pin.fn = "time" /\ ~pout.bgDone
  /\ pout' = [pout EXCEPT !.bgDone = TRUE, !.bg = getTimeOfDayBg(pin.timeStr)]
  /\ UNCHANGED pin

CallGetTextContrastClass ==
  /\ pin.fn = "time" /\ ~pout.contrastDone
  /\ pout' = [pout EXCEPT !.contrastDone = TRUE,
                          !.contrast = getTextContrastClass(pin.timeStr)]
  /\ UNCHANGED pin

NextTime ==
  \/ CallGetTimeOfDayBg /\ UNCHANGED notPureVars
  \/ CallGetTextContrastClass /\ UNCHANGED notPureVars

InitSpecTime == InitTime /\ NoManifest /\ NoFetch /\ NoApp /\ NoSearch /\ NoSelect /\ NoCells

SpecTime == InitSpecTime /\ [][NextTime]_vars

\* The buckets as half-open intervals [lo, hi) of the 24-hour clock.
BucketIntervals ==
  {[name |-> "Deep Night", lo |-> 23, hi |-> 24], [name |-> "Deep Night", lo |-> 0, hi |-> 3],
   [name |-> "Late Night", lo |-> 3, hi |-> 6], [name |-> "Morning", lo |-> 6, hi |-> 12],
   [name |-> "Afternoon", lo |-> 12, hi |-> 18], [name |-> "Evening", lo |-> 18, hi |-> 23]}

BucketsContaining(H) == {b.name : b \in {i \in BucketIntervals : i.lo <= H /\ H < i.hi}}

BucketTint ==
  [b \in {"Deep Night", "Late Night", "Morning", "Afternoon", "Evening"} |->
     IF b = "Deep Night" THEN "#273657" ELSE IF b = "Late Night" THEN "#4E72A0"
     ELSE IF b = "Morning" THEN "#F7F9FF" ELSE IF b = "Afternoon" THEN "#F2F4FF"
     ELSE "#96A8C2"]

\* 12 AM -> 0, 12 PM -> 12, PM with h < 12 -> h + 12
Hour24(h, pm) == IF pm THEN (IF h < 12 THEN h + 12 ELSE 12) ELSE (IF h = 12 THEN 0 ELSE h)

\* C7: for a time string 'h:mm AM|PM' with h in 1..12 getTimeOfDayBg derives
\* the 24-hour hour H and returns the tint of the one bucket that contains H;
\* every hour 0..23 is in exactly one bucket.
TimeOfDayBuckets ==
  /\ \A H \in 0..23 : Cardinality(BucketsContaining(H)) = 1
  /\ pout.fn = "time" /\ pout.bgDone /\ pin.form = "clock" /\ pin.h \in 1..12 =>
       LET H == Hour24(pin.h, pin.pm)
       IN /\ pout.bg.hour = H
          /\ BucketsContaining(H) = {pout.bg.bucket}
          /\ pout.bg.ret = BucketTint[pout.bg.bucket]

\* 11 PM was resolved to hour 23, Deep Night.
TimeOfDayBucketsWitness ==
  /\ pout.fn = "time" /\ pout.bgDone /\ pin.form = "clock"
  /\ pin.h = 11 /\ pin.pm
  /\ pout.bg.bucket = "Deep Night"

DarkOnLight(style) == style.main \in {"text-zinc-900", "text-zinc-950"}
LightOnDark(style) == style.main = "text-white"

\* C8: contrast and time bucket agree. For every time string both functions
\* derive the same hour, and getTextContrastClass returns dark-on-light text
\* exactly when the hour is in [6,18), which is exactly when getTimeOfDayBg
\* returns the Morning or the Afternoon tint; otherwise the text is light-on-dark.
ContrastMatchesBucket ==
  pout.fn = "time" /\ pout.bgDone /\ pout.contrastDone =>
    /\ DarkOnLight(pout.contrast.ret) <=>
         pout.bg.ret \in {BucketTint["Morning"], BucketTint["Afternoon"]}
    /\ DarkOnLight(pout.contrast.ret) \/ LightOnDark(pout.contrast.ret)
    /\ ~Falsy(pin.timeStr) =>
         /\ pout.contrast.hour = pout.bg.hour
         /\ DarkOnLight(pout.contrast.ret) <=> pout.bg.hour \in 6..17
         /\ DarkOnLight(pout.contrast.ret) <=> pout.bg.bucket \in {"Morning", "Afternoon"}

\* Both functions were applied to a 12 AM string: hour 0, light text, Deep Night.
ContrastMatchesBucketWitness ==
  /\ pout.fn = "time" /\ pout.bgDone /\ pout.contrastDone
  /\ pin.form = "clock" /\ pin.h = 12 /\ ~pin.pm
  /\ LightOnDark(pout.contrast.ret) /\ pout.bg.bucket = "Deep Night"

\* The string holds no 12-hour time.
Unparsable == pin.form = "absent" \/ ~pin.parses

\* C9 as stated: absent input and every string that does not parse get the tint
\* and the text style of absent input.
TimeFallbackSameAsAbsent ==
  pout.fn = "time" /\ pout.bgDone /\ pout.contrastDone /\ Unparsable =>
    /\ pout.bg.ret = "#F7F9FF"
    /\ pout.contrast.ret = [main |-> "text-zinc-950", sub |-> "text-zinc-500"]

\* C9, amended: absent input and the empty string get the tint #F7F9FF and the
\* style text-zinc-950 / text-zinc-500; a non-empty string that does not parse
\* is treated as hour 12 by both functions, which gives the Afternoon tint
\* #F2F4FF and the dark-text style text-zinc-900 / text-zinc-500. The text is
\* dark in both cases, and for every input both functions return one of their
\* tints and styles.
TimeFallback ==
  /\ pout.fn = "time" /\ pout.bgDone /\ pout.contrastDone /\ Unparsable =>
       /\ DarkOnLight(pout.contrast.ret)
       /\ IF pin.form = "absent" \/ pin.timeStr.chars = <<>>
          THEN /\ pout.bg.ret = "#F7F9FF"
               /\ pout.contrast.ret = [main |-> "text-zinc-950", sub |-> "text-zinc-500"]
          ELSE /\ pout.bg.hour = 12 /\ pout.contrast.hour = 12
               /\ pout.bg.ret = "#F2F4FF"
               /\ pout.contrast.ret = [main |-> "text-zinc-900", sub |-> "text-zinc-500"]
  /\ pout.fn = "time" /\ pout.bgDone =>
       pout.bg.ret \in {"#273657", "#4E72A0", "#F7F9FF", "#F2F4FF", "#96A8C2"}
  /\ pout.fn = "time" /\ pout.contrastDone =>
       pout.contrast.ret.main \in {"text-zinc-950", "text-zinc-900", "text-white"}

\* Both functions were applied to the placeholder "--:--".
TimeFallbackWitness ==
  /\ pout.fn = "time" /\ pout.bgDone /\ pout.contrastDone
  /\ pin.timeStr.chars = <<"-", "-", ":", "-", "-">>
  /\ pout.bg.ret = "#F2F4FF"

(***************************************************************************)
(* selectImageFromManifest                                                 *)
(* A 32-bit integer is kept as its two's complement word in two 16-bit     *)
(* halves, [hi, lo], so that no intermediate value leaves the range of the *)
(* model checker's integers. A seed is the sequence of its char codes.     *)
(***************************************************************************)

\* Bounds: the seeds over SeedChars up to this length, and the manifest lengths.
MaxSeedLen == 4
MaxImageManifestLen == 5

\* 2^16 and 2^15
Half == 65536
SignBit == 32768

RAW_GITHUB_BASE == "https://raw.githubusercontent.com/Shellwecode/weather-illustrations/main"

Word(hi, lo) == [hi |-> hi % Half, lo |-> lo % Half]

\* x << 5 : the low 32 bits of x * 32
Shl5(w) == Word(w.hi * 32 + (w.lo * 32) \div Half, w.lo * 32)

\* a - b and a + c modulo 2^32 (c a char code, 0..65535)
SubWord(a, b) ==
  LET borrow == IF a.lo < b.lo THEN 1 ELSE 0
  IN Word(a.hi - b.hi - borrow + Half, a.lo - b.lo + Half)

AddCode(w, c) == Word(w.hi + (w.lo + c) \div Half, w.lo + c)

\* The value of the word as a signed 32-bit integer is negative.
Negative(w) == w.hi >= SignBit

\* One round of the loop (lines 71-72): the shift gives an int32, the
\* subtraction and the addition are exact, and |= 0 takes the result modulo 2^32.
HashStep(w, c) == AddCode(SubWord(Shl5(w), w), c)

\* The loop over the seed (lines 69-73).
RECURSIVE HashOf(_)
HashOf(seed) ==
  IF Len(seed) = 0 THEN Word(0, 0)
  ELSE HashStep(HashOf(SubSeq(seed, 1, Len(seed) - 1)), seed[Len(seed)])

\* Math.abs(hash) as an unsigned number: 2^31 for the minimum value, since
\* Math.abs works on doubles.
Magnitude(w) == IF Negative(w) THEN SubWord(Word(0, 0), w) ELSE w

\* m % n for a non-negative m given as a word
ModWord(m, n) == ((m.hi % n) * (Half % n) + m.lo) % n

\* Variant: Math.abs is left out; % keeps the sign of a negative hash.
ImageIndexNoAbs(w, n) == IF Negative(w) THEN 0 - ModWord(Magnitude(w), n) ELSE ModWord(w, n)

\* Math.abs(hash) % manifest.length (line 75)
ImageIndex(w, n) == ModWord(Magnitude(w), n)

\* manifest[index] (line 76), indices counted from 0; undefined outside the array
ElementAt(manifest, index) ==
  IF index \in 0..(Len(manifest) - 1) THEN manifest[index + 1] ELSE "undefined"

\* selectImageFromManifest(category, manifest, seed) (lines 65-79), with the
\* values of hash and index.
selectImageFromManifest(category, manifest, seed) ==
  IF Len(manifest) = 0
  THEN [isNull |-> TRUE, hash |-> Word(0, 0), index |-> 0, url |-> ""]
  ELSE LET hash == HashOf(seed)
           index == ImageIndex(hash, Len(manifest))
           filename == ElementAt(manifest, index)
       IN [isNull |-> FALSE, hash |-> hash, index |-> index,
           url |-> RAW_GITHUB_BASE \o "/" \o category \o "/" \o filename]

\* ---- the inputs that are tried

ImageFiles == <<"0.png", "1.png", "2.png", "3.png", "4.png", "5.png", "6.png">>

\* The manifests: the first n file names, n = 0..MaxImageManifestLen.
ImageManifests == {SubSeq(ImageFiles, 1, n) : n \in 0..MaxImageManifestLen}

\* The char codes of "0", "z" and the largest UTF-16 code unit.
SeedChars == {48, 122, 65535}

\* City ids whose hash wraps: "GydZG_" hashes to the minimum 32-bit value,
\* "2988507" and "1850147" to negative values, "5128581" and "tokyo" to positive ones.
SpecialSeeds ==
  {<<71, 121, 100, 90, 71, 95>>,
   <<50, 57, 56, 56, 53, 48, 55>>,
   <<49, 56, 53, 48, 49, 52, 55>>,
   <<53, 49, 50, 56, 53, 56, 49>>,
   <<116, 111, 107, 121, 111>>}

Seeds == SeqsUpTo(SeedChars, MaxSeedLen) \cup SpecialSeeds

InitImage ==
  /\ pin \in [fn : {"selectImageFromManifest"}, category : Categories,
              manifest : ImageManifests, seed : Seeds]
  /\ pout = [fn |-> "none"]

CallSelectImageFromManifest ==
  /\ pin.fn = "selectImageFromManifest"
  /\ pout.fn = "none"
  /\ pout' = [fn |-> "selectImageFromManifest",
              ret |-> selectImageFromManifest(pin.category, pin.manifest, pin.seed)]
  /\ UNCHANGED pin

NextImage ==
  \/ CallSelectImageFromManifest /\ UNCHANGED notPureVars

InitSpecImage == InitImage /\ NoManifest /\ NoFetch /\ NoApp /\ NoSearch /\ NoSelect /\ NoCells

SpecImage == InitSpecImage /\ [][NextImage]_vars

\* The rolling hash h := h * 31 + charCode, wrapped to 32 bits after every character.
RECURSIVE RollingHash(_)
RollingHash(seed) ==
  IF Len(seed) = 0 THEN [hi |-> 0, lo |-> 0]
  ELSE LET h == RollingHash(SubSeq(seed, 1, Len(seed) - 1))
           lo == h.lo * 31 + seed[Len(seed)]
           hi == h.hi * 31 + lo \div 65536
       IN [hi |-> hi % 65536, lo |-> lo % 65536]

\* |h| mod n for the signed 32-bit value of the word h
AbsMod(h, n) ==
  IF h.hi >= 32768
  THEN \* |h| = 2^32 - u = (65535 - hi) * 2^16 + (65536 - lo)
       (((65535 - h.hi) % n) * (65536 % n) + (65536 - h.lo)) % n
  ELSE ((h.hi % n) * (65536 % n) + h.lo) % n

\* C6: selectImageFromManifest returns absent exactly when the manifest is
\* empty, and otherwise <base>/<category>/<manifest[i]> with i = |h| mod
\* length, h the rolling hash h*31 + charCode wrapped to signed 32 bits; i is
\* in 0..length-1, also when h is the minimum 32-bit value.
SelectImageDeterministic ==
  pout.fn = "selectImageFromManifest" =>
    LET r == pout.ret
        n == Len(pin.manifest)
    IN /\ r.isNull <=> n = 0
       /\ n > 0 =>
            LET h == RollingHash(pin.seed)
                i == AbsMod(h, n)
            IN /\ r.hash = h
               /\ r.index = i
               /\ r.index \in 0..(n - 1)
               /\ r.url = RAW_GITHUB_BASE \o "/" \o pin.category \o "/" \o pin.manifest[i + 1]

\* The image of a seed whose hash is the minimum 32-bit value was selected
\* from a manifest of 3 files.
SelectImageDeterministicWitness ==
  /\ pout.fn = "selectImageFromManifest"
  /\ Len(pin.manifest) = 3
  /\ pout.ret.hash = [hi |-> 32768, lo |-> 0]
  /\ pout.ret.index = 2

(***************************************************************************)
(* The App component                                                       *)
(* A handler or a promise continuation makes its state updates, React      *)
(* renders once (updates are batched) and runs the effects whose           *)
(* dependencies changed; all of that is one step. A call of fetchWeather   *)
(* stays in tasks until it returns a snapshot or throws (retries           *)
(* exhausted). A snapshot is named by its city and by the number of the    *)
(* call that fetched it.                                                   *)
(***************************************************************************)

\* Bound: the number of fetchWeather calls in one run.
MaxFetches == 4

CityA == [id |-> "a", name |-> "A", country |-> "X"]
CityB == [id |-> "b", name |-> "B", country |-> "Y"]
\* a search result with another id for the name and country of CityA
CityA2 == [id |-> "a2", name |-> "A", country |-> "X"]

\* What the search can offer, and the lists the app can start with.
SearchResults == {CityA, CityB, CityA2}
InitialLists == {<<>>, <<CityA>>, <<CityA, CityB>>}

\* The hardcoded list (part_002, CITIES), cut down to its first city.
CITIES == <<CityA>>

\* A JSON text is a sequence of tokens. JSON.stringify(list): the cities in
\* order, each with its fields in the order of the object's keys.
RECURSIVE Stringified(_)
Stringified(list) ==
  IF list = <<>> THEN <<>>
  ELSE <<"{", Head(list).id, Head(list).name, Head(list).country, "}">> \o Stringified(Tail(list))

\* Variant: the cities are written last to first.
RECURSIVE Reversed(_)
Reversed(list) == IF list = <<>> THEN <<>> ELSE Reversed(Tail(list)) \o <<Head(list)>>
StringifyReversed(list) == <<"[">> \o Stringified(Reversed(list)) \o <<"]">>

Stringify(list) == <<"[">> \o Stringified(list) \o <<"]">>

\* The objects of a text that is a run of { id name country } groups.
RECURSIVE Objects(_)
Objects(tokens) ==
  IF tokens = <<>> THEN <<>>
  ELSE <<[id |-> tokens[2], name |-> tokens[3], country |-> tokens[4]]>>
         \o Objects(SubSeq(tokens, 6, Len(tokens)))

IsObjects(tokens) ==
  /\ Len(tokens) % 5 = 0
  /\ \A i \in 1..Len(tokens) :
       CASE i % 5 = 1 -> tokens[i] = "{"
         [] i % 5 = 0 -> tokens[i] = "}"
         [] OTHER -> tokens[i] \notin {"{", "}", "[", "]", "null"}

\* JSON.parse(text): an array of cities, null, or a SyntaxError.
Parse(text) ==
  IF text = <<"null">> THEN [kind |-> "null"]
  ELSE IF Len(text) >= 2 /\ text[1] = "[" /\ text[Len(text)] = "]"
          /\ IsObjects(SubSeq(text, 2, Len(text) - 1))
       THEN [kind |-> "array", value |-> Objects(SubSeq(text, 2, Len(text) - 1))]
  ELSE [kind |-> "SyntaxError"]

Text(tokens) == [kind |-> "text", text |-> tokens]

\* a text cut off in the middle
Truncated == Text(<<"[", "{", "a">>)

\* if (value): the key is there and its text is not the empty string
Truthy(value) == value.kind = "text" /\ value.text # <<>>

\* The initializer of cities (lines 11-25). A SyntaxError of JSON.parse and
\* the TypeError of spreading null end in the catch block, and then in
\* return CITIES.
Loaded(store) ==
  IF Truthy(store.app_cities)
  THEN IF Parse(store.app_cities.text).kind = "SyntaxError"
       THEN [kind |-> "array", value |-> CITIES]
       ELSE Parse(store.app_cities.text)
  ELSE IF Truthy(store.user_cities) /\ Parse(store.user_cities.text).kind = "array"
  THEN [kind |-> "array", value |-> CITIES \o Parse(store.user_cities.text).value]
  ELSE [kind |-> "array", value |-> CITIES]

\* What localStorage can hold when the app starts.
InitialStorages ==
  {[app_cities |-> a, user_cities |-> Absent] :
     a \in {Absent, Text(<<>>), Truncated, Text(<<"null">>)}
            \cup {Text(Stringify(list)) : list \in InitialLists}}
   \cup {[app_cities |-> Absent, user_cities |-> u] :
            u \in {Truncated, Text(<<"null">>), Text(Stringify(<<CityB>>))}}
   \cup {[app_cities |-> Truncated, user_cities |-> Text(Stringify(<<CityB>>))]}

\* The state of the component as one record.
Cur ==
  [cities |-> cities, selectedCity |-> selectedCity, weather |-> weather,
   isGridView |-> isGridView, weatherCache |-> weatherCache, cacheRef |-> cacheRef,
   viewState |-> viewState, tasks |-> tasks, nfetch |-> nfetch,
   storage |-> storage, appPc |-> appPc]

Becomes(s) ==
  /\ cities' = s.cities
  /\ selectedCity' = s.selectedCity
  /\ weather' = s.weather
  /\ isGridView' = s.isGridView
  /\ weatherCache' = s.weatherCache
  /\ cacheRef' = s.cacheRef
  /\ viewState' = s.viewState
  /\ tasks' = s.tasks
  /\ nfetch' = s.nfetch
  /\ storage' = s.storage
  /\ appPc' = s.appPc

Has(rec, id) == id \in DOMAIN rec

\* Variant: every city of the list is fetched.
UncachedOrNot(list, ref) == list

\* The cities of a list that are fetched by the prefetch effect: those with no
\* entry in cacheRef.current (line 53), in list order.
Uncached(list, ref) == SelectSeq(list, LAMBDA c : ~Has(ref, c.id))

\* The prefetch effect (lines 50-66) up to the awaits: one fetchWeather call
\* per city that is not in cacheRef.current.
PrefetchEffect(s) ==
  LET todo == Uncached(s.cities, s.cacheRef)
  IN [s EXCEPT
        !.tasks = @ \cup {[kind |-> "prefetch", city |-> todo[i], had |-> FALSE,
                           n |-> s.nfetch + i] : i \in 1..Len(todo)},
        !.nfetch = @ + Len(todo)]

\* Variant: loadScene does not look into the cache before it fetches.
LoadSceneStartNoCache(s, city) ==
  [s EXCEPT
     !.viewState = [@ EXCEPT !.status = "loading_weather"],
     !.tasks = @ \cup {[kind |-> "loadScene", city |-> city,
                        had |-> Has(s.weatherCache, city.id), n |-> s.nfetch + 1]},
     !.nfetch = @ + 1]

\* loadScene(city) up to its await (lines 68-81). The function was created by
\* the render that s describes, so the weatherCache it reads, here and later
\* in its catch block, is s.weatherCache: had records whether it holds the city.
LoadSceneStart(s, city) ==
  [s EXCEPT
     !.weather = IF Has(s.weatherCache, city.id) THEN s.weatherCache[city.id] ELSE @,
     !.viewState = IF Has(s.weatherCache, city.id)
                   THEN [status |-> "complete",
                         description |-> Describe(city, s.weatherCache[city.id])]
                   ELSE [@ EXCEPT !.status = "loading_weather"],
     !.tasks = @ \cup {[kind |-> "loadScene", city |-> city,
                        had |-> Has(s.weatherCache, city.id), n |-> s.nfetch + 1]},
     !.nfetch = @ + 1]

\* The effect of lines 99-103.
LoadSceneEffect(s) ==
  IF s.selectedCity # NoCity /\ ~s.isGridView THEN LoadSceneStart(s, s.selectedCity) ELSE s

\* The persist effect (lines 45-47).
PersistEffect(s) == [s EXCEPT !.storage.app_cities = Text(Stringify(s.cities))]

\* The effects that run after a render: the prefetch effect when cities
\* changed; the loadScene effect when loadScene (recreated whenever
\* weatherCache changed, line 97), selectedCity or isGridView changed.
RunEffects(s, citiesChanged, sceneDepsChanged) ==
  LET s1 == IF citiesChanged THEN PrefetchEffect(PersistEffect(s)) ELSE s
  IN IF sceneDepsChanged THEN LoadSceneEffect(s1) ELSE s1

\* Variant: no city is selected when the app starts.
MountedUnselected(list, store) ==
  RunEffects([cities |-> list, selectedCity |-> NoCity,
              weather |-> NoWeather, isGridView |-> FALSE,
              weatherCache |-> EmptyRecord, cacheRef |-> EmptyRecord,
              viewState |-> [status |-> "idle", description |-> NoDescription],
              tasks |-> {}, nfetch |-> 0, storage |-> store, appPc |-> "running"],
             TRUE, TRUE)

\* The state after the first render and its effects, for a stored city list
\* (lines 11-39: selectedCity is the first city, everything else is empty).
Mounted(list, store) ==
  RunEffects([cities |-> list,
              selectedCity |-> IF Len(list) > 0 THEN list[1] ELSE NoCity,
              weather |-> NoWeather, isGridView |-> FALSE,
              weatherCache |-> EmptyRecord, cacheRef |-> EmptyRecord,
              viewState |-> [status |-> "idle", description |-> NoDescription],
              tasks |-> {}, nfetch |-> 0, storage |-> store, appPc |-> "running"],
             TRUE, TRUE)

\* The initializer returned null: cities.length (line 27) throws in the first
\* render, nothing is committed and no effect runs.
Crashed(store) ==
  [cities |-> <<>>, selectedCity |-> NoCity, weather |-> NoWeather, isGridView |-> FALSE,
   weatherCache |-> EmptyRecord, cacheRef |-> EmptyRecord,
   viewState |-> [status |-> "idle", description |-> NoDescription],
   tasks |-> {}, nfetch |-> 0, storage |-> store, appPc |-> "crashed"]

\* The page is loaded with store in localStorage.
Started(store) ==
  IF Loaded(store).kind = "array" THEN Mounted(Loaded(store).value, store) ELSE Crashed(store)

InitApp ==
  \E store \in InitialStorages :
    LET s == Started(store)
    IN /\ cities = s.cities
       /\ selectedCity = s.selectedCity
       /\ weather = s.weather
       /\ isGridView = s.isGridView
       /\ weatherCache = s.weatherCache
       /\ cacheRef = s.cacheRef
       /\ viewState = s.viewState
       /\ tasks = s.tasks
       /\ nfetch = s.nfetch
       /\ storage = s.storage
       /\ appPc = s.appPc

\* A step must not take the run over the bound on fetchWeather calls.
Within(s) == s.nfetch <= MaxFetches

\* handleCityChange(city) (lines 105-120): the state updates.
HandleCityChange(s, city) ==
  LET isNewCity == s.selectedCity = NoCity \/ city.id # s.selectedCity.id
      s1 == IF isNewCity
            THEN [s EXCEPT !.weather = IF Has(s.weatherCache, city.id)
                                       THEN s.weatherCache[city.id] ELSE NoWeather,
                           !.selectedCity = city]
            ELSE s
  IN IF s.isGridView THEN [s1 EXCEPT !.isGridView = FALSE] ELSE s1

\* The state after a handler took s to t: render and effects.
AfterHandler(s, t) ==
  RunEffects(t, t.cities # s.cities,
             t.selectedCity # s.selectedCity \/ t.isGridView # s.isGridView)

\* The buttons of CitySelect are disabled (line 190).
Disabled == ~isGridView /\ viewState.status = "loading_weather" /\ weather = NoWeather

InList(list, city) == \E i \in 1..Len(list) : list[i] = city

\* A saved city is picked, in the dropdown (handleSelectSaved) or by a click
\* on its grid cell: handleCityChange(city).
SelectCity(city) ==
  /\ appPc = "running"
  /\ InList(cities, city)
  /\ isGridView \/ ~Disabled
  /\ LET t == AfterHandler(Cur, HandleCityChange(Cur, city))
     IN Within(t) /\ Becomes(t)

\* cities.find(pred): the first city of the list that satisfies pred, or NoCity
Find(list, pred) ==
  IF \E i \in 1..Len(list) : pred[list[i]]
  THEN list[CHOOSE i \in 1..Len(list) : pred[list[i]] /\ \A j \in 1..(i - 1) : ~pred[list[j]]]
  ELSE NoCity

\* the cities a list can hold
Cities == SearchResults

\* Variant: the new city is appended without a look at the list.
HandleAddCityAppends(s, newCity) ==
  HandleCityChange([s EXCEPT !.cities = Append(s.cities, newCity)], newCity)

\* handleAddCity(newCity) (lines 122-131): the state updates.
HandleAddCity(s, newCity) ==
  LET exists == Find(s.cities, [c \in Cities |-> c.id = newCity.id
                                      \/ (c.name = newCity.name /\ c.country = newCity.country)])
  IN IF exists # NoCity THEN HandleCityChange(s, exists)
     ELSE HandleCityChange([s EXCEPT !.cities = Append(s.cities, newCity)], newCity)

\* A search result is picked: handleSelectNew (part_002 lines 123-131) selects
\* the saved city with that id or calls handleAddCity.
AddCity(newCity) ==
  /\ appPc = "running"
  /\ ~Disabled
  /\ LET alreadySaved == Find(cities, [c \in Cities |-> c.id = newCity.id])
         t == AfterHandler(Cur, IF alreadySaved # NoCity
                                THEN HandleCityChange(Cur, alreadySaved)
                                ELSE HandleAddCity(Cur, newCity))
     IN Within(t) /\ Becomes(t)

\* Variant: the selection is kept when the selected city is removed.
RemoveCityKeepsSelection(cityId) ==
  /\ appPc = "running"
  /\ isGridView
  /\ \E i \in 1..Len(cities) : cities[i].id = cityId
  /\ LET t == AfterHandler(Cur, [Cur EXCEPT !.cities = SelectSeq(cities, LAMBDA c : c.id # cityId)])
     IN Within(t) /\ Becomes(t)

\* handleRemoveCity(e, cityId) (lines 133-146), called from a grid cell.
RemoveCity(cityId) ==
  /\ appPc = "running"
  /\ isGridView
  /\ \E i \in 1..Len(cities) : cities[i].id = cityId
  /\ LET newCities == SelectSeq(cities, LAMBDA c : c.id # cityId)
         s1 == [Cur EXCEPT !.cities = newCities]
         s2 == IF selectedCity # NoCity /\ selectedCity.id = cityId
               THEN IF Len(newCities) > 0
                    THEN [s1 EXCEPT !.selectedCity = newCities[1]]
                    ELSE [s1 EXCEPT !.selectedCity = NoCity, !.weather = NoWeather]
               ELSE s1
         t == AfterHandler(Cur, s2)
     IN Within(t) /\ Becomes(t)

\* list.splice(from, 1) then list.splice(to, 0, moved), indices from 0
Moved(list, from, to) ==
  LET without == SubSeq(list, 1, from) \o SubSeq(list, from + 2, Len(list))
  IN SubSeq(without, 1, to) \o <<list[from + 1]>> \o SubSeq(without, to + 1, Len(without))

\* handleReorderCities(fromIndex, toIndex) (lines 148-154), called when a grid
\* cell is dropped on another.
ReorderCities(fromIndex, toIndex) ==
  /\ appPc = "running"
  /\ isGridView
  /\ fromIndex \in 0..(Len(cities) - 1) /\ toIndex \in 0..(Len(cities) - 1)
  /\ fromIndex # toIndex
  /\ LET t == AfterHandler(Cur, [Cur EXCEPT !.cities = Moved(cities, fromIndex, toIndex)])
     IN Within(t) /\ Becomes(t)

\* The view button (lines 173-178): setIsGridView(!isGridView).
ToggleGridView ==
  /\ appPc = "running"
  /\ selectedCity # NoCity \/ isGridView
  /\ LET t == AfterHandler(Cur, [Cur EXCEPT !.isGridView = ~isGridView])
     IN Within(t) /\ Becomes(t)

\* The Open Grid button shown when no city is selected (lines 230-235).
OpenGrid ==
  /\ appPc = "running"
  /\ selectedCity = NoCity /\ ~isGridView
  /\ Becomes(AfterHandler(Cur, [Cur EXCEPT !.isGridView = TRUE]))

\* The page is reloaded: the state of the component is lost, localStorage
\* is kept.
Restart == Becomes(Started(storage))

Snap(t) == [city |-> t.city.id, n |-> t.n]

\* Variant: a snapshot is written only for a city the cache does not hold.
PrefetchOkFirstWins(t) ==
  /\ t \in tasks /\ t.kind = "prefetch"
  /\ LET s1 == IF Has(cacheRef, t.city.id) THEN [Cur EXCEPT !.tasks = @ \ {t}]
               ELSE [Cur EXCEPT !.tasks = @ \ {t},
                                !.cacheRef = Put(@, t.city.id, Snap(t)),
                                !.weatherCache = Put(@, t.city.id, Snap(t))]
         s2 == RunEffects(s1, FALSE, TRUE)
     IN Within(s2) /\ Becomes(s2)

\* fetchWeather returns in the prefetch effect (lines 55-57): the snapshot is
\* written to cacheRef.current and to weatherCache; the new weatherCache
\* recreates loadScene, which runs the effect of lines 99-103.
PrefetchOk(t) ==
  /\ t \in tasks /\ t.kind = "prefetch"
  /\ LET s1 == [Cur EXCEPT !.tasks = @ \ {t},
                           !.cacheRef = Put(@, t.city.id, Snap(t)),
                           !.weatherCache = Put(@, t.city.id, Snap(t))]
         s2 == RunEffects(s1, FALSE, TRUE)
     IN Within(s2) /\ Becomes(s2)

\* fetchWeather throws in the prefetch effect (lines 58-60).
PrefetchFail(t) ==
  /\ t \in tasks /\ t.kind = "prefetch"
  /\ Becomes([Cur EXCEPT !.tasks = @ \ {t}])

\* fetchWeather returns in loadScene (lines 81-89).
LoadSceneOk(t) ==
  /\ t \in tasks /\ t.kind = "loadScene"
  /\ LET s1 == [Cur EXCEPT !.tasks = @ \ {t},
                           !.weather = Snap(t),
                           !.weatherCache = Put(@, t.city.id, Snap(t)),
                           !.cacheRef = Put(@, t.city.id, Snap(t)),
                           !.viewState = [status |-> "complete",
                                            description |-> Describe(t.city, Snap(t))]]
         s2 == RunEffects(s1, FALSE, TRUE)
     IN Within(s2) /\ Becomes(s2)

\* Variant: the catch block reports every failure.
LoadSceneFailAlways(t) ==
  /\ t \in tasks /\ t.kind = "loadScene"
  /\ Becomes([Cur EXCEPT !.tasks = @ \ {t},
                         !.viewState = [@ EXCEPT !.status = "error"],
                         !.weather = NoWeather])

\* fetchWeather throws in loadScene (lines 90-96): the catch block reads the
\* weatherCache of the closure.
LoadSceneFail(t) ==
  /\ t \in tasks /\ t.kind = "loadScene"
  /\ Becomes(IF ~t.had
             THEN [Cur EXCEPT !.tasks = @ \ {t},
                              !.viewState = [@ EXCEPT !.status = "error"],
                              !.weather = NoWeather]
             ELSE [Cur EXCEPT !.tasks = @ \ {t}])

Indices == 0..2

NextApp ==
  \/ \E c \in SearchResults : SelectCity(c) /\ UNCHANGED notAppVars
  \/ \E c \in SearchResults : AddCity(c) /\ UNCHANGED notAppVars
  \/ \E c \in SearchResults : RemoveCity(c.id) /\ UNCHANGED notAppVars
  \/ \E i, j \in Indices : ReorderCities(i, j) /\ UNCHANGED notAppVars
  \/ ToggleGridView /\ UNCHANGED notAppVars
  \/ OpenGrid /\ UNCHANGED notAppVars
  \/ Restart /\ UNCHANGED notAppVars
  \/ \E t \in tasks : PrefetchOk(t) /\ UNCHANGED notAppVars
  \/ \E t \in tasks : PrefetchFail(t) /\ UNCHANGED notAppVars
  \/ \E t \in tasks : LoadSceneOk(t) /\ UNCHANGED notAppVars
  \/ \E t \in tasks : LoadSceneFail(t) /\ UNCHANGED notAppVars

InitSpecApp == InitApp /\ NoManifest /\ NoFetch /\ NoPure /\ NoSearch /\ NoSelect /\ NoCells

Spec == InitSpecApp /\ [][NextApp]_vars

\* A fetchWeather call for the city of t throws: in the prefetch effect or in
\* loadScene.
FetchFails(t) == PrefetchFail(t) \/ LoadSceneFail(t)

\* C1: whenever a fetch fails for a city that has a snapshot in the weather
\* cache at that moment, the step leaves the cache as it is, does not turn
\* the view status into 'error' and does not clear the displayed weather.
StalePreferred ==
  [][\A t \in tasks :
       FetchFails(t) /\ Has(weatherCache, t.city.id) =>
         /\ weatherCache' = weatherCache
         /\ cacheRef' = cacheRef
         /\ viewState'.status = "error" => viewState.status = "error"
         /\ weather' = NoWeather => weather = NoWeather]_vars

\* A loadScene call that started before its city was cached is still waiting
\* for fetchWeather while the cache holds a snapshot of the city.
StalePreferredWitness ==
  \E t \in tasks : t.kind = "loadScene" /\ ~t.had /\ Has(weatherCache, t.city.id)

(***************************************************************************)
(* searchCities                                                            *)
(* A query is a sequence of UTF-16 code units, as query.length counts      *)
(* them. encodeURIComponent throws URIError on a surrogate that has no     *)
(* partner; the call sits inside the try block.                            *)
(***************************************************************************)

\* Bounds: the length of a query and the number of entries of data.results.
MaxQueryLen == 3
MaxResults == 2

\* 'a', and the two halves U+D83D U+DE00 of one character outside the BMP
QueryChars == {97, 55357, 56832}
Queries == SeqsUpTo(QueryChars, MaxQueryLen)

IsHighSurrogate(c) == c >= 55296 /\ c <= 56319
IsLowSurrogate(c) == c >= 56320 /\ c <= 57343

\* encodeURIComponent(q) returns: every surrogate of q has its partner.
WellFormed(q) ==
  \A i \in 1..Len(q) :
    /\ IsHighSurrogate(q[i]) => i < Len(q) /\ IsLowSurrogate(q[i + 1])
    /\ IsLowSurrogate(q[i]) => i > 1 /\ IsHighSurrogate(q[i - 1])

\* String(n) for a natural number
RECURSIVE String(_)
String(n) ==
  IF n < 10 THEN DigitChars[n + 1] ELSE String(n \div 10) \o DigitChars[(n % 10) + 1]

\* The entries a results array can hold: null, and two locations, one of
\* them without a timezone.
ResultItems ==
  {[kind |-> "null"],
   [kind |-> "object", id |-> 7, name |-> "N", country |-> "X", timezone |-> "absent"],
   [kind |-> "object", id |-> 12, name |-> "M", country |-> "Y", timezone |-> "Asia/Tokyo"]}

\* What JSON.parse can give for data.results: nothing, null, a value that is
\* not an array, an array.
ResultsFields ==
  {[kind |-> "missing"], [kind |-> "null"], [kind |-> "string"]}
    \cup {[kind |-> "array", items |-> r] : r \in SeqsUpTo(ResultItems, MaxResults)}

\* The body of a response: not JSON, the JSON null, a JSON object.
SearchBodies ==
  {[kind |-> "unparsable"], [kind |-> "null"]}
    \cup {[kind |-> "object", results |-> f] : f \in ResultsFields}

\* How fetch(url) settles: rejected, or fulfilled with a response.
SearchAnswers ==
  {[kind |-> "reject"], [kind |-> "response", ok |-> FALSE, body |-> [kind |-> "unparsable"]]}
    \cup {[kind |-> "response", ok |-> TRUE, body |-> b] : b \in SearchBodies}

Return(value) == [kind |-> "return", value |-> value]
Throw(error) == [kind |-> "throw", value |-> <<error>>]

\* the arrow function of lines 212-219
MapResult(result) ==
  [id |-> String(result.id), name |-> result.name, country |-> result.country,
   timezone |-> IF result.timezone = "absent" THEN "UTC" ELSE result.timezone]

\* Lines 209-219: the try block from the response on.
AfterFetch(a) ==
  IF a.kind = "reject" THEN Throw("TypeError: Failed to fetch")
  ELSE IF ~a.ok THEN Return(<<>>)
  ELSE IF a.body.kind = "unparsable" THEN Throw("SyntaxError")
  ELSE IF a.body.kind = "null" THEN Throw("TypeError: data is null")
  ELSE IF a.body.results.kind \in {"missing", "null"} THEN Return(<<>>)
  ELSE IF a.body.results.kind = "string" THEN Throw("TypeError: map is not a function")
  ELSE IF \E i \in 1..Len(a.body.results.items) : a.body.results.items[i].kind = "null"
       THEN Throw("TypeError: result is null")
  ELSE Return([i \in 1..Len(a.body.results.items) |-> MapResult(a.body.results.items[i])])

\* Variant: the catch block throws the error on.
CaughtRethrown(outcome) == outcome

\* Lines 220-222: the catch block.
Caught(outcome) == IF outcome.kind = "throw" THEN Return(<<>>) ELSE outcome

\* The promise of the async function settles.
SearchSettles(outcome) ==
  /\ scPc' = IF outcome.kind = "throw" THEN "thrown" ELSE "returned"
  /\ scResult' = outcome.value

\* Line 205: !query || query.length < 2
TooShort(q) == Len(q) = 0 \/ Len(q) < 2

\* searchCities(query) up to its first await (lines 205-208).
CallSearchCities(q) ==
  /\ scPc = "none"
  /\ scQuery' = q
  /\ scAnswer' = scAnswer
  /\ IF TooShort(q)
     THEN SearchSettles(Return(<<>>)) /\ scRequests' = scRequests
     ELSE IF ~WellFormed(q)
     THEN SearchSettles(Caught(Throw("URIError"))) /\ scRequests' = scRequests
     ELSE scPc' = "awaiting" /\ scRequests' = Append(scRequests, q) /\ scResult' = scResult

\* fetch settles and the call runs to its end (lines 208-222).
SearchAnswered(a) ==
  /\ scPc = "awaiting"
  /\ scAnswer' = a
  /\ SearchSettles(Caught(AfterFetch(a)))
  /\ UNCHANGED <<scQuery, scRequests>>

NextSearch ==
  \/ \E q \in Queries : CallSearchCities(q) /\ UNCHANGED notSearchVars
  \/ \E a \in SearchAnswers : SearchAnswered(a) /\ UNCHANGED notSearchVars

InitSpecSearch == NoSearch /\ NoManifest /\ NoFetch /\ NoPure /\ NoApp /\ NoSelect /\ NoCells

SpecSearch == InitSpecSearch /\ [][NextSearch]_vars

\* The request failed: network error, non-success response, unparsable body
\* or no results field.
SearchFailed ==
  \/ scAnswer.kind = "reject"
  \/ scAnswer.kind = "response" /\ ~scAnswer.ok
  \/ scAnswer.kind = "response" /\ scAnswer.ok /\ scAnswer.body.kind = "unparsable"
  \/ /\ scAnswer.kind = "response" /\ scAnswer.ok /\ scAnswer.body.kind = "object"
     /\ scAnswer.body.results.kind = "missing"

\* C11 as stated: a call with a query of 2 or more characters issues exactly
\* one request.
SearchCitiesOneRequest ==
  scPc = "returned" /\ Len(scQuery) >= 2 => Len(scRequests) = 1

\* C11: searchCities never throws. A query of fewer than 2 code units returns
\* the empty sequence with no request. A longer query issues exactly one
\* request when all its surrogates are paired, and none otherwise; it returns
\* the empty sequence when no request went out or the request failed.
SearchCitiesNeverFails ==
  /\ scPc # "thrown"
  /\ Len(scRequests) <= 1
  /\ scPc = "awaiting" => scRequests = <<scQuery>>
  /\ scPc = "returned" =>
       /\ Len(scQuery) < 2 => scRequests = <<>>
       /\ Len(scQuery) >= 2 /\ WellFormed(scQuery) => scRequests = <<scQuery>>
       /\ Len(scQuery) >= 2 /\ ~WellFormed(scQuery) => scRequests = <<>>
       /\ scRequests = <<>> \/ SearchFailed => scResult = <<>>

SearchCitiesNeverFailsWitness ==
  /\ scPc = "returned" /\ Len(scQuery) = 2 /\ scRequests = <<scQuery>>
  /\ scAnswer.kind = "reject" /\ scResult = <<>>

\* C12: when the selected city is removed, the selection becomes the first
\* city of the remaining list, or, if nothing remains, the selection becomes
\* empty and the displayed weather is cleared; when another city is removed
\* the selection stays.
RemoveSelectsFirst ==
  [][\A c \in Cities :
       RemoveCity(c.id) =>
         LET remaining == SelectSeq(cities, LAMBDA x : x.id # c.id)
         IN IF selectedCity.id # c.id THEN selectedCity' = selectedCity
            ELSE IF Len(remaining) > 0 THEN selectedCity' = remaining[1]
            ELSE selectedCity' = NoCity /\ weather' = NoWeather]_vars

\* The last city was removed (fetches were made, so there was one): it was
\* the selected one.
RemoveSelectsFirstWitness ==
  /\ cities = <<>> /\ nfetch > 0 /\ isGridView
  /\ selectedCity = NoCity /\ weather = NoWeather /\ Has(weatherCache, "a")

\* C13: after every operation the text under 'app_cities' is the current
\* list: parsing it gives the cities in their order, and so does loading the
\* list as a restart would.
PersistRoundTrip ==
  appPc = "running" =>
    /\ storage.app_cities.kind = "text"
    /\ Parse(storage.app_cities.text) = [kind |-> "array", value |-> cities]
    /\ Loaded(storage) = [kind |-> "array", value |-> cities]

\* the list was reordered (no start gives this order) and stored
PersistRoundTripWitness ==
  /\ cities = <<CityB, CityA>> /\ isGridView
  /\ Parse(storage.app_cities.text).value = <<CityB, CityA>>

\* the text of a stored value can be parsed to a list
Readable(value) == Truthy(value) /\ Parse(value.text).kind = "array"

\* The list C14 expects from a start: the list under the current key; the
\* default list when that key holds something else; else the default list
\* with the legacy cities after it; else the default list.
Expected(store) ==
  IF Readable(store.app_cities) THEN Parse(store.app_cities.text).value
  ELSE IF Truthy(store.app_cities) THEN CITIES
  ELSE IF Readable(store.user_cities) THEN CITIES \o Parse(store.user_cities.text).value
  ELSE CITIES

\* C14: the start never fails and always gives a list of cities, the one
\* expected from what is stored.
StartupLoadsList ==
  /\ [](appPc # "crashed")
  /\ [][Restart => cities' = Expected(storage)]_vars

\* the calls of loadScene a step starts
StartedBy(oldTasks, newTasks) == {t \in newTasks \ oldTasks : t.kind = "loadScene"}

\* city is the one the detail view shows
Viewed(city) == selectedCity = city /\ ~isGridView

\* C15: a loadScene call for a city with a cached snapshot shows that snapshot
\* with status 'complete' at once and still starts a fetch; while the fetch
\* is out and the city is viewed the status is never 'loading_weather'; when
\* the fetch succeeds the cache entry, and the weather of the view if the
\* city is still viewed, become the fresh snapshot.
StaleWhileRevalidate ==
  /\ [](\A t \in tasks : t.kind = "loadScene" /\ t.had /\ Viewed(t.city) =>
          viewState.status # "loading_weather")
  /\ [][/\ \A t \in StartedBy(tasks, tasks') : ~Restart /\ Has(weatherCache', t.city.id) =>
              /\ t.had
              /\ weather' = weatherCache'[t.city.id]
              /\ viewState' = [status |-> "complete",
                               description |-> Describe(t.city, weatherCache'[t.city.id])]
        /\ \A t \in tasks : LoadSceneOk(t) /\ t.had =>
              /\ weatherCache'[t.city.id] = Snap(t) /\ cacheRef'[t.city.id] = Snap(t)
              /\ Viewed(t.city) => weather' = Snap(t)
              /\ Viewed(t.city) => \E u \in StartedBy(tasks, tasks') : u.city = t.city]_vars

\* a cached city is shown from the cache while its fetch is out
StaleWhileRevalidateWitness ==
  \E t \in tasks :
    /\ t.kind = "loadScene" /\ t.had /\ Viewed(t.city)
    /\ viewState.status = "complete" /\ weather = weatherCache[t.city.id]
    /\ weather.n < t.n

PrefetchesStarted(oldTasks, newTasks, city) ==
  {t \in newTasks \ oldTasks : t.kind = "prefetch" /\ t.city = city}

\* C17: when the list changes, one prefetch starts for every listed city
\* without a cache entry and none for the others; a prefetch that succeeds
\* commits its snapshot and a prefetch that fails changes nothing but
\* itself: the other fetches stay out and the cache stays as it is.
PrefetchFanOut ==
  [][~Restart =>
       /\ \A c \in Cities :
            Cardinality(PrefetchesStarted(tasks, tasks', c)) =
              IF cities' # cities /\ InList(cities', c) /\ ~Has(cacheRef, c.id) THEN 1 ELSE 0
       /\ \A t \in tasks : PrefetchOk(t) =>
            /\ cacheRef'[t.city.id] = Snap(t) /\ weatherCache'[t.city.id] = Snap(t)
            /\ tasks \ {t} \subseteq tasks'
       /\ \A t \in tasks : PrefetchFail(t) =>
            tasks' = tasks \ {t} /\ cacheRef' = cacheRef /\ weatherCache' = weatherCache]_vars

\* the prefetches of A and B went out together (calls 1 and 2); A's
\* committed its snapshot and B's failed
PrefetchFanOutWitness ==
  /\ cities = <<CityA, CityB>>
  /\ Has(cacheRef, "a") /\ cacheRef["a"].n = 1 /\ ~Has(cacheRef, "b")
  /\ \A t \in tasks : t.kind # "prefetch"

\* C18: a fetch of the prefetch effect or of loadScene that succeeds writes
\* its snapshot over the city's entry, whichever fetch was issued first, and
\* leaves the other entries alone; nothing else changes the cache and no
\* entry is removed within a run.
LastWriteWins ==
  [][~Restart =>
       /\ \A t \in tasks : PrefetchOk(t) \/ LoadSceneOk(t) =>
            /\ weatherCache' = [id \in DOMAIN weatherCache \cup {t.city.id} |->
                                  IF id = t.city.id THEN Snap(t) ELSE weatherCache[id]]
            /\ cacheRef' = weatherCache'
       /\ (\A t \in tasks : ~(PrefetchOk(t) \/ LoadSceneOk(t))) =>
            weatherCache' = weatherCache /\ cacheRef' = cacheRef
       /\ DOMAIN weatherCache \subseteq DOMAIN weatherCache']_vars

\* the fetch issued second (shown in the detail view) returned first; the
\* fetch issued first returned after it and its snapshot is the entry
LastWriteWinsWitness ==
  /\ Has(weatherCache, "a") /\ weatherCache["a"].n = 1
  /\ isGridView /\ weather = [city |-> "a", n |-> 2]

\* C19: a fetch of loadScene that settles when the detail view has switched
\* to another city changes neither the weather nor the status of the view.
LateResultDiscarded ==
  [][\A t \in tasks :
       (LoadSceneOk(t) \/ LoadSceneFail(t)) /\ selectedCity # t.city =>
          weather' = weather /\ viewState' = viewState]_vars

\* a fetch of loadScene is out for a city the detail view has left
LateResultDiscardedWitness ==
  \E t \in tasks : t.kind = "loadScene" /\ selectedCity # NoCity /\ selectedCity # t.city

\* C20: at most one weather request is in flight for a city.
OneRequestPerCity ==
  \A t, u \in tasks : t.city.id = u.city.id => t = u

\* C22: the waits of fetchWeather. The wait after attempt k is 1500*k ms when
\* the attempt was answered with 429 and 500*2^(k-1) ms when it failed
\* otherwise; there is one wait after each failed attempt 1 and 2 and none
\* after attempt 3.
BackoffSchedule ==
  /\ \A k \in 1..Len(fwWaits) :
       fwWaits[k] = IF fwLog[k] = "http429" THEN 1500 * k ELSE 500 * Pow2(k - 1)
  /\ Len(fwWaits) = Cardinality({k \in FwFailures : k < retries})

\* C23: in the detail view, once no prefetch is out, the fetch of the viewed
\* city that returns starts no further fetch.
DetailViewQuiesces ==
  [][\A t \in tasks :
       LoadSceneOk(t) /\ Viewed(t.city) /\ (\A u \in tasks : u.kind # "prefetch") =>
         tasks' \subseteq tasks]_vars

\* C24: the weather of the detail view is empty or a snapshot of the
\* selected city, and it is empty when no city is selected.
WeatherOfSelection ==
  ~isGridView =>
    /\ weather = NoWeather \/ weather.city = selectedCity.id
    /\ selectedCity = NoCity => weather = NoWeather

\* C25: no city is selected exactly when the list is empty; otherwise the
\* selected city is one of the list.
SelectionValid ==
  /\ selectedCity = NoCity <=> cities = <<>>
  /\ selectedCity # NoCity => \E i \in 1..Len(cities) : cities[i].id = selectedCity.id

\* the selected city was removed from the grid and the selection moved to
\* the city that is left
SelectionValidWitness ==
  cities = <<CityB>> /\ selectedCity = CityB /\ isGridView /\ Has(weatherCache, "a")

\* the cities of a list have distinct ids and distinct (name, country) pairs
Distinct(list) ==
  \A i, j \in 1..Len(list) :
    i # j => /\ list[i].id # list[j].id
             /\ ~(list[i].name = list[j].name /\ list[i].country = list[j].country)

\* the entries of a list that a city would duplicate
Duplicated(list, city) ==
  {list[i] : i \in {j \in 1..Len(list) :
     list[j].id = city.id \/ (list[j].name = city.name /\ list[j].country = city.country)}}

\* C26: the list never holds two cities with one id or one (name, country);
\* adding a city that would duplicate an entry leaves the list as it is and
\* selects that entry, adding another city appends it and selects it.
NoDuplicateCities ==
  /\ [](Distinct(cities))
  /\ [][\A c \in SearchResults :
          AddCity(c) =>
            IF Duplicated(cities, c) = {}
            THEN cities' = Append(cities, c) /\ selectedCity' = c
            ELSE cities' = cities /\ selectedCity' \in Duplicated(cities, c)]_vars

\* a city with the name and country of A, under another id, was picked from
\* the search results while B was selected: A is selected, the list is unchanged
NoDuplicateCitiesWitness ==
  /\ cities = <<CityB, CityA>> /\ selectedCity = CityA /\ ~isGridView
  /\ \E t \in tasks : t.kind = "loadScene" /\ t.city = CityB

(***************************************************************************)
(* The search panel of CitySelect                                          *)
(* A change of query, the render and the search effect (cleanup of the     *)
(* old timer, then the new run) are one step. The callback of the timer    *)
(* runs when 300 ms have passed without a change of query; it calls        *)
(* searchCities, which returns later. The geocoder answers a query with no *)
(* city or with one city named after the query.                            *)
(***************************************************************************)

\* Bound: the number of searchCities calls of one run.
MaxSearches == 2

\* the texts the input can hold: '', 'a', 'aa', ...
Typed == SeqsUpTo({97}, MaxQueryLen)

\* what searchCities(q) can return
Found(q) == {<<>>, <<[id |-> "1", name |-> q]>>}

\* The search effect for the new query q (lines 93-109): the cleanup of the
\* last run clears its timer; a short query empties the results, a longer
\* one sets a timer.
SearchEffect(q) ==
  IF TooShort(q)
  THEN timer' = NoTimer /\ results' = <<>> /\ isSearching' = FALSE
  ELSE timer' = [kind |-> "timer", query |-> q] /\ UNCHANGED <<results, isSearching>>

\* The search button (line 228).
OpenSearch ==
  /\ ~isSearchOpen
  /\ isSearchOpen' = TRUE
  /\ UNCHANGED <<query, results, isSearching, timer, searches, nsearch>>

\* onChange of the input (line 262).
ChangeQuery(q) ==
  /\ isSearchOpen /\ q # query
  /\ query' = q
  /\ SearchEffect(q)
  /\ UNCHANGED <<isSearchOpen, searches, nsearch>>

\* 300 ms have passed: the callback of the timer up to its await
\* (lines 100-102).
TimerFires ==
  /\ timer # NoTimer /\ nsearch < MaxSearches
  /\ isSearching' = TRUE
  /\ searches' = searches \cup {[query |-> timer.query, n |-> nsearch + 1]}
  /\ nsearch' = nsearch + 1
  /\ timer' = NoTimer
  /\ UNCHANGED <<isSearchOpen, query, results>>

\* searchCities returns: the rest of the callback (lines 103-105).
SearchReturns(f, found) ==
  /\ f \in searches
  /\ results' = found
  /\ isSearching' = FALSE
  /\ searches' = searches \ {f}
  /\ UNCHANGED <<isSearchOpen, query, timer, nsearch>>

\* closeSearch (lines 133-137), and the search effect if query changed.
CloseSearch ==
  /\ isSearchOpen
  /\ isSearchOpen' = FALSE
  /\ query' = <<>>
  /\ IF query # <<>>
     THEN timer' = NoTimer /\ results' = <<>> /\ isSearching' = FALSE
     ELSE results' = <<>> /\ UNCHANGED <<isSearching, timer>>
  /\ UNCHANGED <<searches, nsearch>>

NextSelect ==
  \/ OpenSearch /\ UNCHANGED notSelectVars
  \/ \E q \in Typed : ChangeQuery(q) /\ UNCHANGED notSelectVars
  \/ TimerFires /\ UNCHANGED notSelectVars
  \/ \E f \in searches : \E found \in Found(f.query) :
       SearchReturns(f, found) /\ UNCHANGED notSelectVars
  \/ CloseSearch /\ UNCHANGED notSelectVars

InitSpecSelect == NoSelect /\ NoManifest /\ NoFetch /\ NoPure /\ NoApp /\ NoSearch /\ NoCells

SpecSelect == InitSpecSelect /\ [][NextSelect]_vars

\* C27: a search is only made for the query that has stood for 300 ms (the
\* timer is always for the current query), and a search that returns for a
\* query that is no longer the current one, because it was changed, shortened
\* or the panel closed, leaves the results as they are.
ResultsFollowQuery ==
  /\ [](timer # NoTimer => timer.query = query /\ isSearchOpen)
  /\ [][\A f \in searches : \A found \in Found(f.query) :
          SearchReturns(f, found) /\ f.query # query => results' = results]_vars

\* a search is out for a query the input no longer holds
ResultsFollowQueryWitness ==
  \E f \in searches : f.query # query

(***************************************************************************)
(* The grid cells                                                          *)
(* App renders one CityGridItem per city, keyed by city.id, while          *)
(* isGridView holds (part_000 lines 197-209). A cell keeps its own weather *)
(* and isLoading; its effect waits a random time and then calls            *)
(* fetchWeather(city); the cleanup of the effect clears isMounted.         *)
(***************************************************************************)

\* the cells App renders
Shown(list, grid) == IF grid THEN {list[i].id : i \in 1..Len(list)} ELSE {}

CityOf(list, id) == list[CHOOSE i \in 1..Len(list) : list[i].id = id]

\* The cells after a render of App with the list and the view given: cells
\* that are no longer rendered unmount, new cells mount with
\* weather null and isLoading true (lines 24-26).
CellsAfter(list, grid) ==
  [id \in Shown(list, grid) |->
     IF id \in DOMAIN cells THEN cells[id] ELSE [weather |-> NoWeather, isLoading |-> TRUE]]

\* The loadData calls after that render: the cleanup of an unmounted cell
\* clears the flag of its call (line 49), a new cell starts a call, which
\* first waits (line 36).
CellTasksAfter(list, grid) ==
  {[k EXCEPT !.live = k.live /\ k.city.id \in Shown(list, grid)] : k \in cellTasks}
    \cup {[city |-> CityOf(list, id), stage |-> "jitter", n |-> 0, live |-> TRUE] :
            id \in Shown(list, grid) \ DOMAIN cells}

\* the cells follow the render that ends the step
Rendered ==
  /\ cells' = CellsAfter(cities', isGridView')
  /\ cellTasks' = CellTasksAfter(cities', isGridView')

\* The wait of line 36 is over: a call whose cell is gone returns (line 37),
\* the others call fetchWeather (line 39).
JitterOver(k) ==
  /\ k \in cellTasks /\ k.stage = "jitter"
  /\ IF k.live
     THEN /\ nfetch < MaxFetches
          /\ nfetch' = nfetch + 1
          /\ cellTasks' = (cellTasks \ {k}) \cup {[k EXCEPT !.stage = "fetch", !.n = nfetch + 1]}
     ELSE nfetch' = nfetch /\ cellTasks' = cellTasks \ {k}
  /\ UNCHANGED <<cells, cities, selectedCity, weather, isGridView, weatherCache, cacheRef,
                 viewState, tasks, storage, appPc>>

\* fetchWeather returns in a cell (lines 39-43).
CellFetchOk(k) ==
  /\ k \in cellTasks /\ k.stage = "fetch"
  /\ cellTasks' = cellTasks \ {k}
  /\ cells' = IF k.live
              THEN [cells EXCEPT ![k.city.id] = [weather |-> Snap(k), isLoading |-> FALSE]]
              ELSE cells
  /\ UNCHANGED appVars

\* fetchWeather throws in a cell (lines 44-46).
CellFetchFail(k) ==
  /\ k \in cellTasks /\ k.stage = "fetch"
  /\ cellTasks' = cellTasks \ {k}
  /\ cells' = IF k.live THEN [cells EXCEPT ![k.city.id].isLoading = FALSE] ELSE cells
  /\ UNCHANGED appVars

\* the stored lists the grid is tried with
GridLists == {<<CityA>>, <<CityA, CityB>>}

InitGrid ==
  \E list \in GridLists :
    LET s == Started([app_cities |-> Text(Stringify(list)), user_cities |-> Absent])
    IN /\ cities = s.cities
       /\ selectedCity = s.selectedCity
       /\ weather = s.weather
       /\ isGridView = s.isGridView
       /\ weatherCache = s.weatherCache
       /\ cacheRef = s.cacheRef
       /\ viewState = s.viewState
       /\ tasks = s.tasks
       /\ nfetch = s.nfetch
       /\ storage = s.storage
       /\ appPc = s.appPc

notGridVars == <<manifestVars, fetchVars, pureVars, searchVars, selectVars>>

\* The app with its grid: the view button, a click on a cell, the remove
\* button of a cell, and the fetches of App and of the cells.
NextGrid ==
  \/ ToggleGridView /\ Rendered /\ UNCHANGED notGridVars
  \/ \E c \in Cities : isGridView /\ SelectCity(c) /\ Rendered /\ UNCHANGED notGridVars
  \/ \E c \in Cities : RemoveCity(c.id) /\ Rendered /\ UNCHANGED notGridVars
  \/ \E t \in tasks : PrefetchOk(t) /\ Rendered /\ UNCHANGED notGridVars
  \/ \E t \in tasks : PrefetchFail(t) /\ Rendered /\ UNCHANGED notGridVars
  \/ \E t \in tasks : LoadSceneOk(t) /\ Rendered /\ UNCHANGED notGridVars
  \/ \E t \in tasks : LoadSceneFail(t) /\ Rendered /\ UNCHANGED notGridVars
  \/ \E k \in cellTasks : JitterOver(k) /\ UNCHANGED notGridVars
  \/ \E k \in cellTasks : CellFetchOk(k) /\ UNCHANGED notGridVars
  \/ \E k \in cellTasks : CellFetchFail(k) /\ UNCHANGED notGridVars

InitSpecGrid ==
  InitGrid /\ NoCells /\ NoManifest /\ NoFetch /\ NoPure /\ NoSearch /\ NoSelect

SpecGrid == InitSpecGrid /\ [][NextGrid]_vars

\* C21: a cell that is shown while the cache holds a snapshot of its city
\* displays that snapshot at once, and the snapshot a cell displays is the
\* one the cache holds for its city.
GridCellsUseCache ==
  /\ [][\A id \in DOMAIN cells' \ DOMAIN cells :
          Has(weatherCache', id) => cells'[id].weather = weatherCache'[id]]_vars
  /\ [](\A id \in DOMAIN cells :
          cells[id].weather # NoWeather =>
            Has(weatherCache, id) /\ cells[id].weather = weatherCache[id])

\* a cell is shown without weather, still loading, while the cache holds a
\* snapshot of its city
GridCellsUseCacheWitness ==
  \E id \in DOMAIN cells :
    Has(weatherCache, id) /\ cells[id].weather = NoWeather /\ cells[id].isLoading

====
